---- MODULE Spec2Model ----
(***************************************************************************)
(* On-call scheduling engine of a veterinary clinic (Planning_gardes.py).  *)
(*                                                                         *)
(* A VetScheduler is built for a horizon [start_date, end_date], a roster  *)
(* (name -> rest days, vacation dates) and the cumulated history counters. *)
(* solve() compiles the rule set of add_constraints into a CP-SAT model,   *)
(* lets the solver pick ANY assignment of the three Boolean variables      *)
(* premier / rappelable / deuxieme per (vet, day) that satisfies it, and   *)
(* returns the schedule read back by extract_solution (or None).           *)
(*                                                                         *)
(* Dates are day numbers: day index d of the horizon is the date           *)
(* start_date + d, its weekday is (start_wd + d) % 7 with 0 = Monday.      *)
(* Vets are their positions 1..n_vets in vet_names (Python index + 1).     *)
(***************************************************************************)
EXTENDS Integers, Sequences, FiniteSets, TLC

VARIABLES
    start_wd,          \* weekday of self.start_date (0 = Monday .. 6 = Sunday)
    n_days,            \* self.n_days
    veterinaires,      \* self.veterinaires in the order of self.vet_names
    contraintes,       \* self.config.contraintes
    historical_stats,  \* self.historical_stats, by vet position
    weekdays,          \* self.weekdays
    weeks,             \* self.weeks
    weekends,          \* self.weekends
    status,            \* "built", then the solver status name once solve() has run
    schedule,          \* what solve() returned: a list of day records, or NoSchedule
    diagnostic,        \* the last call of diagnose_schedule: its argument and its result
    args,              \* the arguments the VetScheduler constructor was called with
    raised,            \* the message of the ValueError the constructor raised, or None
    vets_speciaux,     \* self.config.vets_speciaux
    history,           \* VetSchedulerHistory.history, the periods held in memory
    file,              \* the history file on disk
    calls,             \* the calls of add_schedule and clear made so far
    saving,            \* the save() under way on the file, if any
    loaded             \* what a second VetSchedulerHistory object got from load()

\* the fields of the VetScheduler object
schedulerVars == <<start_wd, n_days, veterinaires, contraintes, historical_stats,
                   weekdays, weeks, weekends, vets_speciaux>>

\* the constructor call
callVars == <<args, raised>>

\* the history object and its file
storeVars == <<history, file, calls, saving, loaded>>

vars == <<start_wd, n_days, veterinaires, contraintes, historical_stats,
          weekdays, weeks, weekends, status, schedule, diagnostic,
          args, raised, vets_speciaux, history, file, calls, saving, loaded>>

None == "None"

-----------------------------------------------------------------------------
(* Bounds of the explored inputs *)

\* horizons of 1..MaxShortDays days are explored from every start weekday
MaxShortDays == 2
\* historical counters range over 0..MaxHist
MaxHist == 3

-----------------------------------------------------------------------------
(* Small helpers *)

Range(s) == {s[i] : i \in 1..Len(s)}

B2N(b) == IF b THEN 1 ELSE 0

SetMax(S) == CHOOSE x \in S : \A y \in S : y <= x
SetMin(S) == CHOOSE x \in S : \A y \in S : x <= y

-----------------------------------------------------------------------------
(* VetSchedulerConfig *)

groupe_A == {"Dr. Timoty", "Dr. Laura", "Dr. Lauranne", "Dr. Sarah", "Dr. Malaurie"}
groupe_B == {"Dr. Julien", "Dr. Isaure", "Dr. Maxime", "Dr. Nicolas", "Dr. Mélanie",
             "Dr. Olivier", "Dr. Dorra"}

DefaultContraintes ==
    [max_premier_semaine |-> 1,
     max_rappelable_semaine |-> 2,
     ecart_equilibrage_premier |-> 2,
     ecart_equilibrage_rappelable |-> 2,
     ecart_equilibrage_deuxieme |-> 2,
     espacement_weekends_jours |-> 14,
     max_sequences_consecutives_rappelable |-> 1]

-----------------------------------------------------------------------------
(* VetScheduler.__init__: the calendar *)

n_vets == Len(veterinaires)
Vets == 1..n_vets
vet_names(v) == veterinaires[v].name
Days == 0..(n_days - 1)

WeekdayOf(wd0, d) == (wd0 + d) % 7
weekday(d) == WeekdayOf(start_wd, d)

\* the loop closing a work-week on Fridays only
RECURSIVE PartitionLoop_FridayOnly(_, _, _, _, _, _, _)
PartitionLoop_FridayOnly(wd0, n, i, current_week, wdays, wks, wes) ==
    IF i >= n THEN [weekdays |-> wdays, weeks |-> wks, weekends |-> wes]
    ELSE IF WeekdayOf(wd0, i) < 5
    THEN LET cw == Append(current_week, i) IN
         IF WeekdayOf(wd0, i) = 4
         THEN PartitionLoop_FridayOnly(wd0, n, i + 1, <<>>, Append(wdays, i),
                                       Append(wks, cw), wes)
         ELSE PartitionLoop_FridayOnly(wd0, n, i + 1, cw, Append(wdays, i), wks, wes)
    ELSE LET sat == IF WeekdayOf(wd0, i) = 5 THEN <<i>> ELSE <<>>
             i1  == i + Len(sat)
             we  == IF i1 < n /\ WeekdayOf(wd0, i1) = 6 THEN Append(sat, i1) ELSE sat
             i2  == i + Len(we)
         IN PartitionLoop_FridayOnly(wd0, n, i2, current_week, wdays, wks,
                                     IF we # <<>> THEN Append(wes, we) ELSE wes)

\* the loop of __init__ that fills self.weekdays, self.weeks and self.weekends
RECURSIVE PartitionLoop(_, _, _, _, _, _, _)
PartitionLoop(wd0, n, i, current_week, wdays, wks, wes) ==
    IF i >= n THEN [weekdays |-> wdays, weeks |-> wks, weekends |-> wes]
    ELSE IF WeekdayOf(wd0, i) < 5
    THEN LET cw == Append(current_week, i) IN
         IF WeekdayOf(wd0, i) = 4 \/ i = n - 1
         THEN PartitionLoop(wd0, n, i + 1, <<>>, Append(wdays, i), Append(wks, cw), wes)
         ELSE PartitionLoop(wd0, n, i + 1, cw, Append(wdays, i), wks, wes)
    ELSE LET sat == IF WeekdayOf(wd0, i) = 5 THEN <<i>> ELSE <<>>
             i1  == i + Len(sat)
             we  == IF i1 < n /\ WeekdayOf(wd0, i1) = 6 THEN Append(sat, i1) ELSE sat
             i2  == i + Len(we)
         IN PartitionLoop(wd0, n, i2, current_week, wdays, wks,
                          IF we # <<>> THEN Append(wes, we) ELSE wes)

Partition(wd0, n) == PartitionLoop(wd0, n, 0, <<>>, <<>>, <<>>, <<>>)


-----------------------------------------------------------------------------
(* The decision variables (create_variables) and their values              *)
(*                                                                         *)
(* An assignment a gives, per role, the list over the days of the set of   *)
(* vets whose Boolean variable is 1 that day.  The solver's search fixes   *)
(* the variables day by day, premier then rappelable then deuxieme; a      *)
(* variable not fixed yet reads as 0, which no "<=", "== 0" or implication *)
(* constraint of the model can object to, and the "== 1" and "x == y"      *)
(* constraints wait for their variables (the Len tests below).             *)
(*                                                                         *)
(* Each block of add_constraints is a conjunction of instances, one per    *)
(* iteration of its loops.  ConstraintK(a, from) is the conjunction of the *)
(* instances of block K that mention a day >= from: with from = 0 it is    *)
(* the whole block, and on a complete assignment it reads exactly as       *)
(* add_constraints states it.                                              *)

Prem(a, v, d) == d < Len(a.premier) /\ v \in a.premier[d + 1]
Rapp(a, v, d) == d < Len(a.rappelable) /\ v \in a.rappelable[d + 1]
Deux(a, v, d) == d < Len(a.deuxieme) /\ v \in a.deuxieme[d + 1]

Completed(a) == Len(a.deuxieme) = n_days

jours_repos(v) == veterinaires[v].jour_repos
conges(v) == veterinaires[v].conges

Last(s) == s[Len(s)]

-----------------------------------------------------------------------------
(* VetScheduler.add_constraints *)

\* block 1 without its line "premier + rappelable <= 1"
Constraint1_SameVetTwice(a, from) ==
    \A d \in {x \in Range(weekdays) : x >= from} :
        /\ d < Len(a.premier) => Cardinality({v \in Vets : Prem(a, v, d)}) = 1
        /\ d < Len(a.rappelable) => Cardinality({v \in Vets : Rapp(a, v, d)}) = 1
        /\ \A v \in Vets : ~Deux(a, v, d)

\* 1. each weekday: exactly 1 premier and 1 different rappelable, no deuxieme
Constraint1(a, from) ==
    \A d \in {x \in Range(weekdays) : x >= from} :
        /\ d < Len(a.premier) => Cardinality({v \in Vets : Prem(a, v, d)}) = 1
        /\ d < Len(a.rappelable) => Cardinality({v \in Vets : Rapp(a, v, d)}) = 1
        /\ \A v \in Vets :
            /\ B2N(Prem(a, v, d)) + B2N(Rapp(a, v, d)) <= 1
            /\ ~Deux(a, v, d)

\* block 2 without its line "premier + deuxieme <= 1"
Constraint2_SameVetTwice(a, from) ==
    \A i \in {x \in 1..Len(weekends) : Last(weekends[x]) >= from} :
        Len(weekends[i]) = 2 =>
            LET sam == weekends[i][1]
                dim == weekends[i][2]
            IN  /\ sam < Len(a.premier) => Cardinality({v \in Vets : Prem(a, v, sam)}) = 1
                /\ sam < Len(a.deuxieme) => Cardinality({v \in Vets : Deux(a, v, sam)}) = 1
                /\ \A v \in Vets : ~Rapp(a, v, sam) /\ ~Rapp(a, v, dim)
                /\ \A v \in Vets :
                    /\ dim < Len(a.premier) => (Prem(a, v, sam) <=> Prem(a, v, dim))
                    /\ dim < Len(a.deuxieme) => (Deux(a, v, sam) <=> Deux(a, v, dim))

\* 2. each full weekend: 1 premier + 1 deuxieme, the same on both days
Constraint2(a, from) ==
    \A i \in {x \in 1..Len(weekends) : Last(weekends[x]) >= from} :
        Len(weekends[i]) = 2 =>
            LET sam == weekends[i][1]
                dim == weekends[i][2]
            IN  /\ sam < Len(a.premier) => Cardinality({v \in Vets : Prem(a, v, sam)}) = 1
                /\ sam < Len(a.deuxieme) => Cardinality({v \in Vets : Deux(a, v, sam)}) = 1
                /\ \A v \in Vets : ~Rapp(a, v, sam) /\ ~Rapp(a, v, dim)
                /\ \A v \in Vets :
                    /\ dim < Len(a.premier) => (Prem(a, v, sam) <=> Prem(a, v, dim))
                    /\ dim < Len(a.deuxieme) => (Deux(a, v, sam) <=> Deux(a, v, dim))
                    /\ B2N(Prem(a, v, sam)) + B2N(Deux(a, v, sam)) <= 1

\* block 3 capping the work-weeks of five days only
Constraint3_FullWeeksOnly(a, from) ==
    \A v \in Vets : \A w \in {x \in 1..Len(weeks) : Last(weeks[x]) >= from} :
        Len(weeks[w]) = 5 =>
            Cardinality({d \in Range(weeks[w]) : Prem(a, v, d)})
                <= contraintes.max_premier_semaine

\* block 3 allowing one premier more per vet and work-week
Constraint3_OneMore(a, from) ==
    \A v \in Vets : \A w \in {x \in 1..Len(weeks) : Last(weeks[x]) >= from} :
        Cardinality({d \in Range(weeks[w]) : Prem(a, v, d)})
            <= contraintes.max_premier_semaine + 1

\* 3. at most max_premier_semaine premier per vet and work-week
Constraint3(a, from) ==
    \A v \in Vets : \A w \in {x \in 1..Len(weeks) : Last(weeks[x]) >= from} :
        Cardinality({d \in Range(weeks[w]) : Prem(a, v, d)})
            <= contraintes.max_premier_semaine

\* 4. rappelable caps: Dr. Olivier 1 over two consecutive work-weeks,
\*    Dr. Dorra 1 per work-week, the others 2 per work-week
Constraint4(a, from) ==
    \A v \in Vets :
        IF vet_names(v) = "Dr. Olivier"
        THEN \A i \in {x \in 1..(Len(weeks) - 1) : Last(weeks[x + 1]) >= from} :
                Cardinality({d \in Range(weeks[i] \o weeks[i + 1]) : Rapp(a, v, d)}) <= 1
        ELSE IF vet_names(v) = "Dr. Dorra"
        THEN \A w \in {x \in 1..Len(weeks) : Last(weeks[x]) >= from} :
                Cardinality({d \in Range(weeks[w]) : Rapp(a, v, d)}) <= 1
        ELSE \A w \in {x \in 1..Len(weeks) : Last(weeks[x]) >= from} :
                Cardinality({d \in Range(weeks[w]) : Rapp(a, v, d)}) <= 2

\* block 5 without its second implication (premier, then rappelable)
Constraint5_PremierOnly(a, from) ==
    \A v \in Vets : \A d \in {x \in Range(weekdays) : x + 1 >= from} :
        d + 1 < n_days => (Prem(a, v, d) => ~Prem(a, v, d + 1))

\* 5. rest the day after a weekday premier
Constraint5(a, from) ==
    \A v \in Vets : \A d \in {x \in Range(weekdays) : x + 1 >= from} :
        d + 1 < n_days =>
            /\ Prem(a, v, d) => ~Prem(a, v, d + 1)
            /\ Prem(a, v, d) => ~Rapp(a, v, d + 1)

\* the exception of 5bis and 15: Dr. Laura, Monday a rest day and no vacation
LauraException(v, lundi) ==
    /\ vet_names(v) = "Dr. Laura"
    /\ 0 \in jours_repos(v)
    /\ lundi \notin conges(v)

\* 5bis. rest on the Monday after a weekend as premier
Constraint5bis(a, from) ==
    \A v \in Vets : \A i \in {x \in 1..Len(weekends) : Last(weekends[x]) + 1 >= from} :
        Len(weekends[i]) = 2 =>
            LET dim == weekends[i][2]
                lundi == dim + 1
            IN  (dim + 1 < n_days /\ weekday(dim + 1) = 0) =>
                    IF LauraException(v, lundi) THEN TRUE
                    ELSE /\ Prem(a, v, weekends[i][1]) => ~Prem(a, v, lundi)
                         /\ Prem(a, v, weekends[i][1]) => ~Rapp(a, v, lundi)

\* 6. at most 1 pair of consecutive rappelable days per vet and work-week
Constraint6(a, from) ==
    \A v \in Vets : \A w \in {x \in 1..Len(weeks) : Last(weeks[x]) >= from} :
        Cardinality({i \in 1..(Len(weeks[w]) - 1) :
                        /\ weeks[w][i + 1] = weeks[w][i] + 1
                        /\ Rapp(a, v, weeks[w][i])
                        /\ Rapp(a, v, weeks[w][i + 1])}) <= 1

\* 7. special vets: Dr. Olivier never premier, never deuxieme, no rappelable
\*    on Saturday or Sunday
Constraint7Olivier(a, from) ==
    \A v \in Vets :
        vet_names(v) = "Dr. Olivier" =>
            \A d \in from..(n_days - 1) :
                /\ ~Prem(a, v, d)
                /\ ~Deux(a, v, d)
                /\ weekday(d) >= 5 => ~Rapp(a, v, d)

\* the Dr. Dorra block forbidding premier only on Mondays
Constraint7Dorra_PremierOnly(a, from) ==
    \A v \in Vets :
        vet_names(v) = "Dr. Dorra" =>
            \A d \in from..(n_days - 1) : weekday(d) = 0 => ~Prem(a, v, d)

\* 7. special vets: Dr. Dorra never on a Monday
Constraint7Dorra(a, from) ==
    \A v \in Vets :
        vet_names(v) = "Dr. Dorra" =>
            \A d \in from..(n_days - 1) :
                weekday(d) = 0 => ~Prem(a, v, d) /\ ~Rapp(a, v, d) /\ ~Deux(a, v, d)

\* the Dr. Isaure block forbidding premier only on Mondays
Constraint7Isaure_PremierOnly(a, from) ==
    \A v \in Vets :
        vet_names(v) = "Dr. Isaure" =>
            \A d \in from..(n_days - 1) : weekday(d) = 0 => ~Prem(a, v, d)

\* 7. special vets: Dr. Isaure never on a Monday
Constraint7Isaure(a, from) ==
    \A v \in Vets :
        vet_names(v) = "Dr. Isaure" =>
            \A d \in from..(n_days - 1) :
                weekday(d) = 0 => ~Prem(a, v, d) /\ ~Rapp(a, v, d) /\ ~Deux(a, v, d)

\* the rest-day block without the vacations
Constraint7Repos_NoConges(a, from) ==
    \A v \in Vets : \A d \in from..(n_days - 1) :
        (weekday(d) \in jours_repos(v) /\ weekday(d) < 5) =>
            ~Prem(a, v, d) /\ ~Rapp(a, v, d)

\* 7. weekly rest days (weekdays only) and vacations
Constraint7Repos(a, from) ==
    \A v \in Vets : \A d \in from..(n_days - 1) :
        /\ (weekday(d) \in jours_repos(v) /\ weekday(d) < 5) =>
                ~Prem(a, v, d) /\ ~Rapp(a, v, d)
        /\ d \in conges(v) =>
                ~Prem(a, v, d) /\ ~Rapp(a, v, d) /\ ~Deux(a, v, d)

\* the eve block zeroing premier only
Constraint7Veille_PremierOnly(a, from) ==
    \A v \in Vets : \A d \in from..(n_days - 1) :
        d + 1 < n_days =>
            IF vet_names(v) = "Dr. Julien"
            THEN (d + 1) \in conges(v) => ~Prem(a, v, d)
            ELSE IF vet_names(v) # "Dr. Olivier"
            THEN ((weekday(d + 1) \in jours_repos(v) /\ weekday(d + 1) < 5)
                    \/ (d + 1) \in conges(v)) =>
                        ~Prem(a, v, d)
            ELSE TRUE

\* the eve block where only the eve of a rest day counts for the other vets
Constraint7Veille_RestOnly(a, from) ==
    \A v \in Vets : \A d \in from..(n_days - 1) :
        d + 1 < n_days =>
            IF vet_names(v) = "Dr. Julien"
            THEN (d + 1) \in conges(v) => ~Prem(a, v, d)
            ELSE IF vet_names(v) # "Dr. Olivier"
            THEN (weekday(d + 1) \in jours_repos(v) /\ weekday(d + 1) < 5) =>
                        ~Prem(a, v, d) /\ ~Rapp(a, v, d)
            ELSE TRUE

\* 7. the eve of a rest day or vacation (Dr. Julien: the eve of a vacation
\*    only, and premier only; Dr. Olivier: nothing)
Constraint7Veille(a, from) ==
    \A v \in Vets : \A d \in from..(n_days - 1) :
        d + 1 < n_days =>
            IF vet_names(v) = "Dr. Julien"
            THEN (d + 1) \in conges(v) => ~Prem(a, v, d)
            ELSE IF vet_names(v) # "Dr. Olivier"
            THEN ((weekday(d + 1) \in jours_repos(v) /\ weekday(d + 1) < 5)
                    \/ (d + 1) \in conges(v)) =>
                        ~Prem(a, v, d) /\ ~Rapp(a, v, d)
            ELSE TRUE

Constraint7(a, from) ==
    /\ Constraint7Olivier(a, from)
    /\ Constraint7Dorra(a, from)
    /\ Constraint7Isaure(a, from)
    /\ Constraint7Repos(a, from)
    /\ Constraint7Veille(a, from)

\* 9. nobody on duty on Friday holds the weekend that follows
Constraint9(a, from) ==
    \A v \in Vets : \A i \in {x \in 1..Len(weekends) : Last(weekends[x]) >= from} :
        Len(weekends[i]) > 0 =>
            LET sam == weekends[i][1]
                vendredi == sam - 1
            IN  (sam > 0 /\ weekday(sam - 1) = 4) =>
                    /\ B2N(Prem(a, v, vendredi)) + B2N(Prem(a, v, sam)) <= 1
                    /\ B2N(Prem(a, v, vendredi)) + B2N(Deux(a, v, sam)) <= 1
                    /\ B2N(Rapp(a, v, vendredi)) + B2N(Prem(a, v, sam)) <= 1
                    /\ B2N(Rapp(a, v, vendredi)) + B2N(Deux(a, v, sam)) <= 1

\* block 10 with "days_apart < 14" turned into "days_apart < 7"
Constraint10_SevenDays(a, from) ==
    \A v \in Vets : \A i \in 1..Len(weekends) :
        \A j \in {x \in (i + 1)..Len(weekends) : Last(weekends[x]) >= from} :
            (Len(weekends[i]) = 2 /\ Len(weekends[j]) = 2) =>
                LET sam_i == weekends[i][1]
                    sam_j == weekends[j][1]
                    days_apart == sam_j - sam_i
                IN  days_apart < 7 =>
                        B2N(Prem(a, v, sam_i)) + B2N(Deux(a, v, sam_i))
                            + B2N(Prem(a, v, sam_j)) + B2N(Deux(a, v, sam_j)) <= 1

\* 10. two full weekends less than 14 days apart: at most one role in all
Constraint10(a, from) ==
    \A v \in Vets : \A i \in 1..Len(weekends) :
        \A j \in {x \in (i + 1)..Len(weekends) : Last(weekends[x]) >= from} :
            (Len(weekends[i]) = 2 /\ Len(weekends[j]) = 2) =>
                LET sam_i == weekends[i][1]
                    sam_j == weekends[j][1]
                    days_apart == sam_j - sam_i
                IN  days_apart < 14 =>
                        B2N(Prem(a, v, sam_i)) + B2N(Deux(a, v, sam_i))
                            + B2N(Prem(a, v, sam_j)) + B2N(Deux(a, v, sam_j)) <= 1

\* the vets of the balancing constraints 11, 12 and 13
Equilibres == {v \in Vets : vet_names(v) \notin {"Dr. Olivier", "Dr. Dorra"}}

\* min/max equality and gap of 11-13: every total lies in 0..ub (the domain
\* of the IntVars total_*, min_* and max_*) and max - min <= ecart
Ecart(totaux, ub, ecart) ==
    LET vals == {totaux[v] : v \in DOMAIN totaux}
    IN  /\ \A t \in vals : 0 <= t /\ t <= ub
        /\ SetMax(vals) - SetMin(vals) <= ecart

\* 11. balance of premier (all days) + history
Constraint11(a) ==
    (Completed(a) /\ Cardinality(Equilibres) > 1) =>
        Ecart([v \in Equilibres |->
                  Cardinality({d \in Days : Prem(a, v, d)})
                    + historical_stats[v].premier_semaine
                    + historical_stats[v].premier_weekend],
              n_days * 10, contraintes.ecart_equilibrage_premier)

\* 12. balance of rappelable (weekdays) + history
Constraint12(a) ==
    (Completed(a) /\ Cardinality(Equilibres) > 1) =>
        Ecart([v \in Equilibres |->
                  Cardinality({d \in Range(weekdays) : Rapp(a, v, d)})
                    + historical_stats[v].rappelable_semaine],
              Len(weekdays) * 10, contraintes.ecart_equilibrage_rappelable)

\* the days of self.weekends, full or not
WeekendDays == UNION {Range(weekends[i]) : i \in 1..Len(weekends)}

\* 13. balance of deuxieme (weekend days) + history
Constraint13(a) ==
    (Completed(a) /\ Cardinality(Equilibres) > 1) =>
        Ecart([v \in Equilibres |->
                  Cardinality({d \in WeekendDays : Deux(a, v, d)})
                    + historical_stats[v].deuxieme_weekend],
              Len(weekends) * 20, contraintes.ecart_equilibrage_deuxieme)

indices_A == {v \in Vets : vet_names(v) \in groupe_A}
indices_B == {v \in Vets : vet_names(v) \in groupe_B /\ vet_names(v) # "Dr. Dorra"}

\* block 14 pairing the weekend roles only
Constraint14_WeekendOnly(a, from) ==
    \A d \in from..(n_days - 1) : \A v_a \in indices_A : \A v_autre \in Vets :
        (v_autre \notin indices_B /\ v_autre # v_a /\ vet_names(v_autre) # "Dr. Dorra") =>
            (weekday(d) >= 5 => B2N(Prem(a, v_a, d)) + B2N(Deux(a, v_autre, d)) <= 1)

\* 14. a premier of groupe A is paired with groupe B (or Dr. Dorra)
Constraint14(a, from) ==
    \A d \in from..(n_days - 1) : \A v_a \in indices_A : \A v_autre \in Vets :
        (v_autre \notin indices_B /\ v_autre # v_a /\ vet_names(v_autre) # "Dr. Dorra") =>
            IF weekday(d) >= 5
            THEN B2N(Prem(a, v_a, d)) + B2N(Deux(a, v_autre, d)) <= 1
            ELSE B2N(Prem(a, v_a, d)) + B2N(Rapp(a, v_autre, d)) <= 1

\* block 15 without its second implication (deuxieme, then rappelable)
Constraint15_PremierOnly(a, from) ==
    \A v \in Vets : \A i \in {x \in 1..Len(weekends) : Last(weekends[x]) + 1 >= from} :
        Len(weekends[i]) = 2 =>
            LET dim == weekends[i][2]
                lundi == dim + 1
            IN  (dim + 1 < n_days /\ weekday(dim + 1) = 0) =>
                    IF LauraException(v, lundi) THEN TRUE
                    ELSE Deux(a, v, weekends[i][1]) => ~Prem(a, v, lundi)

\* 15. rest on the Monday after a weekend as deuxieme
Constraint15(a, from) ==
    \A v \in Vets : \A i \in {x \in 1..Len(weekends) : Last(weekends[x]) + 1 >= from} :
        Len(weekends[i]) = 2 =>
            LET dim == weekends[i][2]
                lundi == dim + 1
            IN  (dim + 1 < n_days /\ weekday(dim + 1) = 0) =>
                    IF LauraException(v, lundi) THEN TRUE
                    ELSE /\ Deux(a, v, weekends[i][1]) => ~Prem(a, v, lundi)
                         /\ Deux(a, v, weekends[i][1]) => ~Rapp(a, v, lundi)

\* the instances of the model that mention a day >= from
Posted(a, from) ==
    /\ Constraint1(a, from)
    /\ Constraint2(a, from)
    /\ Constraint3(a, from)
    /\ Constraint4(a, from)
    /\ Constraint5(a, from)
    /\ Constraint5bis(a, from)
    /\ Constraint6(a, from)
    /\ Constraint7(a, from)
    /\ Constraint9(a, from)
    /\ Constraint10(a, from)
    /\ Constraint11(a)
    /\ Constraint12(a)
    /\ Constraint13(a)
    /\ Constraint14(a, from)
    /\ Constraint15(a, from)

\* the whole model
add_constraints(a) == Posted(a, 0)

-----------------------------------------------------------------------------
(* solver.Solve: the assignments the solver can return *)

NoValues == [premier |-> <<>>, rappelable |-> <<>>, deuxieme |-> <<>>]

\* the role whose variables of the next day are fixed next
NextRole(a) ==
    IF Len(a.premier) = Len(a.deuxieme) THEN "premier"
    ELSE IF Len(a.rappelable) < Len(a.premier) THEN "rappelable"
    ELSE "deuxieme"

Fix(a, S) == [a EXCEPT ![NextRole(a)] = Append(@, S)]

\* Every complete assignment that extends a and satisfies the model.  A
\* branch is cut as soon as an instance on the day being fixed is violated;
\* what is kept is checked against the whole model.
RECURSIVE Search(_)
Search(a) ==
    IF Completed(a) THEN (IF add_constraints(a) THEN {a} ELSE {})
    ELSE UNION {Search(b) : b \in {c \in {Fix(a, S) : S \in SUBSET Vets} :
                                        Posted(c, Len(c.premier) - 1)}}

Solutions == Search(NoValues)

-----------------------------------------------------------------------------
(* VetScheduler.extract_solution *)

\* date.strftime('%A')
DayName(wd) ==
    <<"Monday", "Tuesday", "Wednesday", "Thursday", "Friday", "Saturday", "Sunday">>[wd + 1]

\* the loop over v keeps the last vet whose variable is 1
ExtractRole(S) == IF S = {} THEN None ELSE vet_names(SetMax(S))

extract_solution(a) ==
    [i \in 1..n_days |->
        [date |-> i - 1,
         jour |-> DayName(weekday(i - 1)),
         premier |-> ExtractRole(a.premier[i]),
         rappelable |-> ExtractRole(a.rappelable[i]),
         deuxieme |-> ExtractRole(a.deuxieme[i])]]

-----------------------------------------------------------------------------
(* VetScheduler.diagnose_schedule *)

Violation(entry, message) == [date |-> entry.date, message |-> message]

\* the checks made on one entry of the schedule, in the order of the code
EntryViolations(entry) ==
    LET is_weekend == weekday(entry.date) >= 5
        If(cond, message) == IF cond THEN <<Violation(entry, message)>> ELSE <<>>
    IN  If(entry.premier = None, "Aucun premier de garde")
        \o (IF is_weekend
            THEN If(entry.deuxieme = None, "Aucun 2ème de garde (week-end)")
                 \o If(entry.rappelable # None, "Rappelable présent le week-end (devrait être 2ème)")
            ELSE If(entry.rappelable = None, "Aucun rappelable (semaine)")
                 \o If(entry.deuxieme # None, "2ème de garde en semaine (devrait être rappelable)"))
        \o If(entry.premier # None /\ entry.rappelable # None
                /\ entry.premier = entry.rappelable,
              "Même personne en premier et rappelable")
        \o If(entry.premier # None /\ entry.deuxieme # None
                /\ entry.premier = entry.deuxieme,
              "Même personne en premier et 2ème de garde")

RECURSIVE DiagViolations(_)
DiagViolations(s) ==
    IF s = <<>> THEN <<>>
    ELSE DiagViolations(SubSeq(s, 1, Len(s) - 1)) \o EntryViolations(s[Len(s)])

\* stats: one entry per name met in the schedule (a defaultdict)
DiagStats(s) ==
    LET names == UNION {{s[i].premier, s[i].rappelable, s[i].deuxieme} : i \in 1..Len(s)}
                    \ {None}
        is_weekend(i) == weekday(s[i].date) >= 5
    IN  [nm \in names |->
            [premier_semaine |->
                Cardinality({i \in 1..Len(s) : s[i].premier = nm /\ ~is_weekend(i)}),
             premier_weekend |->
                Cardinality({i \in 1..Len(s) : s[i].premier = nm /\ is_weekend(i)}),
             rappelable_semaine |->
                Cardinality({i \in 1..Len(s) : s[i].rappelable = nm}),
             deuxieme_weekend |->
                Cardinality({i \in 1..Len(s) : s[i].deuxieme = nm})]]

\* the balance warnings, in the order of the code
DiagWarnings(s) ==
    LET stats == DiagStats(s)
        premiers_semaine == {stats[nm].premier_semaine : nm \in DOMAIN stats}
        premiers_weekend == {stats[nm].premier_weekend \div 2 : nm \in DOMAIN stats}
        rappelables == {stats[nm].rappelable_semaine : nm \in DOMAIN stats}
        Warn(vals, extra, key, categorie) ==
            IF vals # {} /\ extra /\ SetMax(vals) - SetMin(vals) > contraintes[key]
            THEN <<[categorie |-> categorie, ecart |-> SetMax(vals) - SetMin(vals)]>>
            ELSE <<>>
    IN  Warn(premiers_semaine, TRUE, "ecart_equilibrage_premier", "premier semaine")
        \o Warn(premiers_weekend, premiers_weekend # {} /\ SetMax(premiers_weekend) > 0,
                "ecart_equilibrage_premier", "premier week-end")
        \o Warn(rappelables, TRUE, "ecart_equilibrage_rappelable", "rappelable")

diagnose_schedule(s) ==
    IF s = <<>>
    THEN [status |-> "error", message |-> "Aucun planning à diagnostiquer"]
    ELSE [status |-> IF DiagViolations(s) = <<>> THEN "success" ELSE "error",
          violations |-> DiagViolations(s),
          warnings |-> DiagWarnings(s),
          stats |-> DiagStats(s)]

\* no call of diagnose_schedule yet
NoDiagnostic == [called |-> FALSE]

Diagnosed(s) == [called |-> TRUE, argument |-> s, result |-> diagnose_schedule(s)]

-----------------------------------------------------------------------------
(* VetScheduler.solve *)

\* solve() returns None when the solver found nothing; when it found a
\* schedule it runs diagnose_schedule on it before returning it
NoSchedule == <<>>

\* solve() handing out a schedule although the time limit was hit
SolveOutcomes_ScheduleOnUnknown ==
    LET found == Solutions IN
        {[status |-> st, schedule |-> extract_solution(a)] :
            st \in {"OPTIMAL", "FEASIBLE", "UNKNOWN"}, a \in found}
        \cup (IF found = {} THEN {[status |-> "INFEASIBLE", schedule |-> NoSchedule]}
              ELSE {})
        \cup {[status |-> "UNKNOWN", schedule |-> NoSchedule]}

\* what one call of solve() can yield: the solver returns any assignment
\* that satisfies the model (status OPTIMAL or FEASIBLE), proves that there
\* is none (INFEASIBLE), or runs out of time (UNKNOWN)
SolveOutcomes ==
    LET found == Solutions IN
        {[status |-> st, schedule |-> extract_solution(a)] :
            st \in {"OPTIMAL", "FEASIBLE"}, a \in found}
        \cup (IF found = {} THEN {[status |-> "INFEASIBLE", schedule |-> NoSchedule]}
              ELSE {})
        \cup {[status |-> "UNKNOWN", schedule |-> NoSchedule]}

Solve ==
    /\ status = "built"
    /\ \E out \in SolveOutcomes :
        /\ status' = out.status
        /\ schedule' = out.schedule
        /\ diagnostic' = IF out.status \in {"OPTIMAL", "FEASIBLE"}
                         THEN Diagnosed(out.schedule)
                         ELSE diagnostic
    /\ UNCHANGED <<schedulerVars, callVars, storeVars>>

-----------------------------------------------------------------------------
(* The inputs explored: horizon, roster, configuration, history *)

Vet(name, repos, vacances) == [name |-> name, jour_repos |-> repos, conges |-> vacances]

ZeroStats == [premier_semaine |-> 0, premier_weekend |-> 0,
              rappelable_semaine |-> 0, deuxieme_weekend |-> 0]

NoHistory(roster) == [v \in 1..Len(roster) |-> ZeroStats]

Input(wd0, n, roster, cfg, hist) ==
    [start_wd |-> wd0, n_days |-> n, veterinaires |-> roster,
     contraintes |-> cfg, historical_stats |-> hist]

\* history where one counter of one vet is x and all the others are 0
OneHistory(roster, v, k, x) ==
    [u \in 1..Len(roster) |-> IF u = v THEN [ZeroStats EXCEPT ![k] = x] ELSE ZeroStats]

Counters == {"premier_semaine", "premier_weekend", "rappelable_semaine", "deuxieme_weekend"}

\* three vets without a weekday rest day: one of groupe A, two of groupe B
RosterTrio ==
    <<Vet("Dr. Timoty", {5}, {}), Vet("Dr. Maxime", {6}, {}), Vet("Dr. Nicolas", {5}, {})>>

\* the two vets left out of the balancing, and one other
RosterSpeciaux ==
    <<Vet("Dr. Olivier", {6}, {}), Vet("Dr. Dorra", {5}, {}), Vet("Dr. Maxime", {6}, {})>>

\* five vets, rest days on Wednesday, Thursday, Tuesday; Dr. Nicolas on
\* vacation on the first day of the horizon
RosterMixte ==
    <<Vet("Dr. Timoty", {2}, {}), Vet("Dr. Maxime", {3}, {}), Vet("Dr. Nicolas", {5}, {0}),
      Vet("Dr. Olivier", {6}, {}), Vet("Dr. Dorra", {1}, {})>>

\* five vets with their usual rest days
RosterCinq ==
    <<Vet("Dr. Timoty", {0}, {}), Vet("Dr. Laura", {0}, {}), Vet("Dr. Julien", {1, 3}, {}),
      Vet("Dr. Maxime", {2}, {}), Vet("Dr. Isaure", {4}, {})>>

\* every horizon of at most MaxShortDays days, default configuration, no history
ShortInputs ==
    {Input(wd0, n, r, DefaultContraintes, NoHistory(r)) :
        wd0 \in 0..6, n \in 1..MaxShortDays, r \in {RosterTrio, RosterSpeciaux}}

\* Monday-Tuesday, a lone Saturday and a full weekend, with a history
HistInputs ==
    {Input(h[1], h[2], RosterTrio, DefaultContraintes, OneHistory(RosterTrio, v, k, x)) :
        h \in {<<0, 2>>, <<5, 1>>, <<5, 2>>}, v \in 1..3, k \in Counters, x \in 1..MaxHist}

\* three weekdays under other limits than the default ones
ConfigInputs ==
    {Input(wd0, 3, RosterTrio,
           [DefaultContraintes EXCEPT !.max_premier_semaine = m,
                                      !.ecart_equilibrage_premier = e,
                                      !.ecart_equilibrage_rappelable = e,
                                      !.ecart_equilibrage_deuxieme = e],
           NoHistory(RosterTrio)) :
        wd0 \in {0, 2}, m \in 1..2, e \in 1..2}

\* Thursday to Tuesday (two partial work-weeks around a weekend), and
\* Saturday to the Sunday of the next week (two weekends 7 days apart)
LongInputs ==
    {Input(3, 6, RosterMixte, DefaultContraintes, NoHistory(RosterMixte)),
     Input(5, 9, RosterCinq, DefaultContraintes, NoHistory(RosterCinq))}

\* Monday to Wednesday under another max_rappelable_semaine than the default 2
RappelableInputs ==
    {Input(0, 3, RosterTrio, [DefaultContraintes EXCEPT !.max_rappelable_semaine = m],
           NoHistory(RosterTrio)) : m \in {1, 3}}

\* four vets, Dr. Laura on vacation on day 2 of the horizon
RosterLaura(repos) ==
    <<Vet("Dr. Laura", repos, {2}), Vet("Dr. Maxime", {6}, {}), Vet("Dr. Nicolas", {5}, {}),
      Vet("Dr. Timoty", {5}, {})>>

\* four vets, Dr. Julien with Tuesday as rest day and on vacation on day 3
RosterJulien ==
    <<Vet("Dr. Julien", {1}, {3}), Vet("Dr. Maxime", {6}, {}), Vet("Dr. Nicolas", {5}, {}),
      Vet("Dr. Timoty", {5}, {})>>

\* Saturday to Monday with Dr. Laura on vacation on the Monday (her rest day
\* being Monday or Wednesday), and Monday to Thursday with Dr. Julien
\* resting on Tuesday and on vacation on Thursday
CongesInputs ==
    {Input(5, 3, RosterLaura(r), DefaultContraintes, NoHistory(RosterLaura(r))) :
        r \in {{0}, {2}}}
    \cup {Input(0, 4, RosterJulien, DefaultContraintes, NoHistory(RosterJulien))}

\* one week of three vets: Monday to Friday, and Monday to Sunday
WeekInputs ==
    {Input(0, n, RosterTrio, DefaultContraintes, NoHistory(RosterTrio)) : n \in {5, 7}}

\* the trio with the vets of S away on every weekday: the first two by
\* their rest days, Dr. Nicolas by a vacation on the first day
RosterAbsents(S) ==
    <<Vet("Dr. Timoty", IF 1 \in S THEN 0..4 ELSE {5}, {}),
      Vet("Dr. Maxime", IF 2 \in S THEN 0..4 ELSE {6}, {}),
      Vet("Dr. Nicolas", {5}, IF 3 \in S THEN {0} ELSE {})>>

\* three vets of groupe A
RosterA ==
    <<Vet("Dr. Timoty", {5}, {}), Vet("Dr. Laura", {6}, {}), Vet("Dr. Sarah", {5}, {})>>

\* a Monday alone and a Wednesday alone, with 0 to 3 vets of the trio away
\* or with three vets of the same group
OneDayInputs ==
    {Input(wd0, 1, r, DefaultContraintes, NoHistory(r)) :
        wd0 \in {0, 2}, r \in {RosterAbsents(S) : S \in SUBSET (1..3)} \cup {RosterA}}

\* history crediting every vet of the roster with x under counter k
SameHistory(roster, k, x) == [u \in 1..Len(roster) |-> [ZeroStats EXCEPT ![k] = x]]

\* Monday-Tuesday with every vet credited with the same 1..MaxHist under one
\* counter, and a Wednesday alone with every vet credited with one weekday
\* premier more than ten times the number of days
UniformInputs ==
    {Input(0, 2, RosterTrio, DefaultContraintes, SameHistory(RosterTrio, k, x)) :
        k \in Counters, x \in 1..MaxHist}
    \cup {Input(2, 1, RosterTrio, DefaultContraintes,
                SameHistory(RosterTrio, "premier_semaine", 10 * 1 + 1))}

Inputs == ShortInputs \cup HistInputs \cup ConfigInputs \cup LongInputs
            \cup RappelableInputs \cup CongesInputs \cup WeekInputs \cup OneDayInputs
            \cup UniformInputs

-----------------------------------------------------------------------------
(* VetSchedulerHistory: the periods recorded, in memory and on disk *)

\* self.history = {}
EmptyHistory == [p \in {} |-> <<>>]

\* the loop of get_cumulative_stats over the periods, for one vet and one key
RECURSIVE SumPeriods(_, _, _, _)
SumPeriods(h, periods, vet, key) ==
    IF periods = {} THEN 0
    ELSE LET p == CHOOSE q \in periods : TRUE IN
         (IF vet \in DOMAIN h[p].stats THEN h[p].stats[vet][key] ELSE 0)
            + SumPeriods(h, periods \ {p}, vet, key)

\* the keys of the defaultdict of add_schedule: a vet gets an entry as soon
\* as one of the three roles of an entry names it
StatsKeys(s) ==
    ({s[i].premier : i \in 1..Len(s)} \cup {s[i].rappelable : i \in 1..Len(s)}
        \cup {s[i].deuxieme : i \in 1..Len(s)}) \ {None}

\* the tally filing every premier day under premier_semaine
PeriodStats_PremierAnyDay(s, wd0) ==
    LET Count(P(_)) == Cardinality({i \in 1..Len(s) : P(i)})
    IN  [vet \in StatsKeys(s) |->
            [premier_semaine |-> LET P(i) == s[i].premier = vet IN Count(P),
             premier_weekend |-> 0,
             rappelable_semaine |-> LET P(i) == s[i].rappelable = vet IN Count(P),
             deuxieme_weekend |-> LET P(i) == s[i].deuxieme = vet IN Count(P)]]

\* the loop of add_schedule over the entries; the weekday of an entry is
\* that of its date, wd0 being the weekday of the date numbered 0
PeriodStats(s, wd0) ==
    LET is_weekend(i) == WeekdayOf(wd0, s[i].date) >= 5
        Count(P(_)) == Cardinality({i \in 1..Len(s) : P(i)})
    IN  [vet \in StatsKeys(s) |->
            [premier_semaine |-> LET P(i) == s[i].premier = vet /\ ~is_weekend(i) IN Count(P),
             premier_weekend |-> LET P(i) == s[i].premier = vet /\ is_weekend(i) IN Count(P),
             rappelable_semaine |-> LET P(i) == s[i].rappelable = vet IN Count(P),
             deuxieme_weekend |-> LET P(i) == s[i].deuxieme = vet IN Count(P)]]

\* the name add_schedule files the schedule under
PeriodName(s, period_name) ==
    IF period_name = None
    THEN ToString(s[1].date) \o "_to_" \o ToString(Last(s).date)
    ELSE period_name

\* add_schedule keeping the new period only
WithSchedule_Alone(h, s, period_name, wd0) ==
    IF s = NoSchedule THEN h
    ELSE [q \in {PeriodName(s, period_name)} |->
            [date_debut |-> s[1].date,
             date_fin |-> Last(s).date,
             stats |-> PeriodStats(s, wd0)]]

\* self.history after add_schedule(schedule, period_name) on the history h
WithSchedule(h, s, period_name, wd0) ==
    IF s = NoSchedule THEN h
    ELSE LET name == PeriodName(s, period_name) IN
         [q \in DOMAIN h \cup {name} |->
            IF q = name
            THEN [date_debut |-> s[1].date,
                  date_fin |-> Last(s).date,
                  stats |-> PeriodStats(s, wd0)]
            ELSE h[q]]

\* get_cumulative_stats, by position in vet_names
get_cumulative_stats(h, names) ==
    [v \in 1..Len(names) |->
        [key \in Counters |-> SumPeriods(h, DOMAIN h, names[v], key)]]

\* the history file: absent, holding the JSON text of a history, or cut
\* short (opened for writing and not written yet, or written in part)
NoFile == [state |-> "absent", data |-> EmptyHistory]
JsonFile(h) == [state |-> "json", data |-> h]
TruncatedFile == [state |-> "truncated", data |-> EmptyHistory]

\* load(): the parsed content, {} when the file is missing or json.load fails
load(f) == IF f.state = "json" THEN f.data ELSE EmptyHistory

\* add_schedule(schedule, period_name), save() included
add_schedule(s, period_name) ==
    /\ history' = WithSchedule(history, s, period_name, start_wd)
    /\ file' = IF s = NoSchedule THEN file ELSE JsonFile(history')
    /\ calls' = Append(calls, [op |-> "add_schedule", schedule |-> s,
                               period_name |-> period_name])

\* clear(), save() included
clear ==
    /\ history' = EmptyHistory
    /\ file' = JsonFile(history')
    /\ calls' = Append(calls, [op |-> "clear", schedule |-> NoSchedule,
                               period_name |-> None])

-----------------------------------------------------------------------------
(* VetScheduler.__init__ and validate_inputs *)

\* the limits validate_inputs enforces
MaxSpan == 365
MinVets == 3
MaxRestDays == 5

\* a date string: well formed (the day it denotes, day 0 being a Monday) or not
Date(n) == [ok |-> TRUE, day |-> n]
Malformed == [ok |-> FALSE, day |-> 0]

\* a Python value found where a rest day is expected: an int or something else
PyInt(n) == [int |-> TRUE, n |-> n]
NotInt == [int |-> FALSE, n |-> 0]

\* info['jour_repos']: absent, an int, a list, or of another type
RestMissing == [kind |-> "missing", value |-> <<>>]
RestInt(n) == [kind |-> "int", value |-> <<PyInt(n)>>]
RestList(l) == [kind |-> "list", value |-> l]
RestOther == [kind |-> "other", value |-> <<>>]

\* info['conges']: absent, a list of date strings, or of another type
CongesMissing == [kind |-> "missing", value |-> <<>>]
CongesList(l) == [kind |-> "list", value |-> l]
CongesOther == [kind |-> "other", value |-> <<>>]

\* one item of the veterinaires dict; dict tells whether info is a dict
RawVet(name, is_dict, jr, cg) ==
    [name |-> name, dict |-> is_dict, jour_repos |-> jr, conges |-> cg]

Valid == "ok"

\* the body of the loop of validate_inputs over the vets
ValidateVet(info) ==
    LET jr == info.jour_repos
        cg == info.conges
    IN  IF ~info.dict THEN "Les informations doivent être un dictionnaire"
        ELSE IF jr.kind = "missing" THEN "Le champ 'jour_repos' est obligatoire"
        ELSE IF jr.kind = "int" /\ ~(0 <= jr.value[1].n /\ jr.value[1].n <= 6)
            THEN "jour_repos doit être entre 0 (lundi) et 6 (dimanche)"
        ELSE IF jr.kind = "list"
                /\ ~(\A i \in 1..Len(jr.value) :
                        jr.value[i].int /\ 0 <= jr.value[i].n /\ jr.value[i].n <= 6)
            THEN "Tous les jours de repos doivent être entre 0 et 6"
        ELSE IF jr.kind = "list" /\ Len(jr.value) > MaxRestDays
            THEN "Trop de jours de repos, maximum 5"
        ELSE IF jr.kind \notin {"int", "list"}
            THEN "jour_repos doit être un entier ou une liste d'entiers"
        ELSE IF cg.kind = "other" THEN "Le champ 'conges' doit être une liste"
        ELSE IF cg.kind = "list" /\ \E i \in 1..Len(cg.value) : ~cg.value[i].ok
            THEN "Date de congé invalide (format requis: YYYY-MM-DD)"
        ELSE Valid

\* validate_inputs accepting any roster that is not empty
validate_inputs_NoMinimum(start_date, end_date, vets) ==
    IF ~start_date.ok \/ ~end_date.ok
        THEN "Format de date invalide (doit être YYYY-MM-DD)"
    ELSE IF start_date.day > end_date.day
        THEN "La date de début doit être avant la date de fin"
    ELSE IF end_date.day - start_date.day > MaxSpan
        THEN "La période ne peut pas dépasser 1 an"
    ELSE IF Len(vets) = 0 THEN "La liste des vétérinaires ne peut pas être vide"
    ELSE LET bad == {i \in 1..Len(vets) : ValidateVet(vets[i]) # Valid} IN
         IF bad = {} THEN Valid ELSE ValidateVet(vets[SetMin(bad)])

\* the message of the ValueError validate_inputs raises, or Valid
validate_inputs(start_date, end_date, vets) ==
    IF ~start_date.ok \/ ~end_date.ok
        THEN "Format de date invalide (doit être YYYY-MM-DD)"
    ELSE IF start_date.day > end_date.day
        THEN "La date de début doit être avant la date de fin"
    ELSE IF end_date.day - start_date.day > MaxSpan
        THEN "La période ne peut pas dépasser 1 an"
    ELSE IF Len(vets) = 0 THEN "La liste des vétérinaires ne peut pas être vide"
    ELSE IF Len(vets) < MinVets
        THEN "Il faut au moins 3 vétérinaires pour générer un planning"
    ELSE LET bad == {i \in 1..Len(vets) : ValidateVet(vets[i]) # Valid} IN
         IF bad = {} THEN Valid ELSE ValidateVet(vets[SetMin(bad)])

\* VetSchedulerConfig().vets_speciaux
DefaultVetsSpeciaux ==
    [v \in {"Dr. Olivier", "Dr. Julien", "Dr. Laura", "Dr. Dorra"} |->
        CASE v = "Dr. Olivier" -> [jamais_premier |-> TRUE, jamais_deuxieme |-> TRUE,
                                   jamais_weekend |-> TRUE,
                                   max_rappelable_2_semaines |-> 1]
          [] v = "Dr. Julien" -> [peut_garde_veille_repos |-> TRUE]
          [] v = "Dr. Laura" -> [peut_garde_weekend_malgre_repos_lundi |-> TRUE]
          [] v = "Dr. Dorra" -> [jamais_lundi |-> TRUE, max_rappelable_par_semaine |-> 1,
                                 exclus_compatibilite_binome |-> TRUE]]
\* the config argument: None, or a VetSchedulerConfig
NoConfig == [given |-> FALSE, contraintes |-> DefaultContraintes,
             vets_speciaux |-> DefaultVetsSpeciaux]
Config(cfg, speciaux) == [given |-> TRUE, contraintes |-> cfg, vets_speciaux |-> speciaux]

\* the fields a VetScheduler has before __init__ has set them
NoScheduler ==
    [start_wd |-> 0, n_days |-> 0, veterinaires |-> <<>>, contraintes |-> <<>>,
     historical_stats |-> <<>>, weekdays |-> <<>>, weeks |-> <<>>, weekends |-> <<>>,
     vets_speciaux |-> <<>>]

\* a vet as add_constraints reads it: the rest days as a set, the vacation
\* days as day indices of the horizon
Normalised(info, start_date) ==
    Vet(info.name,
        {info.jour_repos.value[i].n : i \in 1..Len(info.jour_repos.value)},
        {info.conges.value[i].day - start_date.day : i \in 1..Len(info.conges.value)})

\* VetScheduler(start_date, end_date, veterinaires, config, history)
Constructor ==
    LET err == validate_inputs(args.start_date, args.end_date, args.veterinaires) IN
    IF err # Valid
    THEN /\ raised' = err
         /\ UNCHANGED <<schedulerVars, status, schedule, diagnostic, args, storeVars>>
    ELSE LET n == args.end_date.day - args.start_date.day + 1
             wd0 == args.start_date.day % 7
             p == Partition(wd0, n)
         IN /\ start_wd' = wd0
            /\ n_days' = n
            /\ veterinaires' = [i \in 1..Len(args.veterinaires) |->
                                    Normalised(args.veterinaires[i], args.start_date)]
            /\ contraintes' = args.config.contraintes
            /\ vets_speciaux' = args.config.vets_speciaux
            /\ historical_stats' =
                    get_cumulative_stats(history,
                        [i \in 1..Len(args.veterinaires) |-> args.veterinaires[i].name])
            /\ weekdays' = p.weekdays
            /\ weeks' = p.weeks
            /\ weekends' = p.weekends
            /\ status' = "built"
            /\ schedule' = NoSchedule
            /\ UNCHANGED <<diagnostic, args, raised, storeVars>>

-----------------------------------------------------------------------------
(* The constructor call and the history behind an explored input *)

RECURSIVE SetToSeq(_)
SetToSeq(S) == IF S = {} THEN <<>> ELSE LET m == SetMin(S) IN <<m>> \o SetToSeq(S \ {m})

\* the veterinaires dict of a roster: rest days as a list, vacations as dates
RawRoster(roster, start) ==
    [i \in 1..Len(roster) |->
        LET jr == SetToSeq(roster[i].jour_repos)
            cg == SetToSeq(roster[i].conges)
        IN  RawVet(roster[i].name, TRUE,
                   RestList([j \in 1..Len(jr) |-> PyInt(jr[j])]),
                   CongesList([j \in 1..Len(cg) |-> Date(start + cg[j])]))]

\* the arguments that build the scheduler of an input
ArgsOf(inp) ==
    [start_date |-> Date(inp.start_wd),
     end_date |-> Date(inp.start_wd + inp.n_days - 1),
     veterinaires |-> RawRoster(inp.veterinaires, inp.start_wd),
     config |-> Config(inp.contraintes,
                       IF "vets_speciaux" \in DOMAIN inp THEN inp.vets_speciaux
                       ELSE DefaultVetsSpeciaux)]

\* a history of one earlier period whose counters are those of the input
HistoryOf(roster, hist) ==
    LET credited == {v \in 1..Len(roster) : hist[v] # ZeroStats} IN
    IF credited = {} THEN EmptyHistory
    ELSE [p \in {"2025"} |->
            [date_debut |-> -28,
             date_fin |-> -1,
             stats |-> [nm \in {roster[v].name : v \in credited} |->
                            hist[CHOOSE v \in credited : roster[v].name = nm]]]]

\* the file a history was loaded from
FileOf(h) == IF h = EmptyHistory THEN NoFile ELSE JsonFile(h)

\* no save() has begun; a save() under way records what the file held
\* before open() and what it is writing
NoSave == [state |-> "idle", previous |-> EmptyHistory, content |-> EmptyHistory]
NotLoaded == [called |-> FALSE, history |-> EmptyHistory]

\* the state once VetScheduler(...) has returned for the input
BuiltFrom(inp) ==
    /\ start_wd = inp.start_wd
    /\ n_days = inp.n_days
    /\ veterinaires = inp.veterinaires
    /\ contraintes = inp.contraintes
    /\ historical_stats = inp.historical_stats
    /\ LET p == Partition(inp.start_wd, inp.n_days) IN
        /\ weekdays = p.weekdays
        /\ weeks = p.weeks
        /\ weekends = p.weekends
    /\ status = "built"
    /\ schedule = NoSchedule
    /\ diagnostic = NoDiagnostic
    /\ args = ArgsOf(inp)
    /\ raised = None
    /\ vets_speciaux = args.config.vets_speciaux
    /\ history = HistoryOf(inp.veterinaires, inp.historical_stats)
    /\ file = FileOf(history)
    /\ calls = <<>>
    /\ saving = NoSave
    /\ loaded = NotLoaded

-----------------------------------------------------------------------------

\* Dr. Isaure with two vets without special rule
RosterIsaure ==
    <<Vet("Dr. Timoty", {5}, {}), Vet("Dr. Maxime", {6}, {}), Vet("Dr. Isaure", {4}, {})>>

\* config.vets_speciaux as VetSchedulerConfig() sets it, or as from_json
\* replaces it: by an empty map, by tags for Dr. Isaure and Dr. Maxime alone
SpeciauxValues ==
    {DefaultVetsSpeciaux,
     [v \in {} |-> <<>>],
     [v \in {"Dr. Isaure", "Dr. Maxime"} |->
        IF v = "Dr. Isaure" THEN [jamais_lundi |-> FALSE] ELSE [jamais_premier |-> TRUE]]}

\* Monday-Tuesday for the rosters with special vets, under each vets_speciaux
SpeciauxInputs ==
    {[f \in {"start_wd", "n_days", "veterinaires", "contraintes", "historical_stats",
             "vets_speciaux"} |->
        IF f = "vets_speciaux" THEN sp
        ELSE Input(0, 2, r, DefaultContraintes, NoHistory(r))[f]] :
        r \in {RosterIsaure, RosterSpeciaux}, sp \in SpeciauxValues}

Init == \E inp \in Inputs \cup SpeciauxInputs : BuiltFrom(inp)

Next == Solve

Spec == Init /\ [][Next]_vars

-----------------------------------------------------------------------------
(* diagnose_schedule called on its own, on any schedule of the horizon *)

\* Monday-Tuesday and a full weekend, balancing gaps of 1 or 2, without
\* history or with Dr. Timoty credited with MaxHist weekday premiers
DiagInputs ==
    {Input(h[1], h[2], RosterTrio,
           [DefaultContraintes EXCEPT !.ecart_equilibrage_premier = e,
                                      !.ecart_equilibrage_rappelable = e,
                                      !.ecart_equilibrage_deuxieme = e],
           hist) :
        h \in {<<0, 2>>, <<5, 2>>}, e \in 1..2,
        hist \in {NoHistory(RosterTrio),
                  OneHistory(RosterTrio, 1, "premier_semaine", MaxHist)}}

InitDiagnose == \E inp \in DiagInputs : BuiltFrom(inp)

\* the names a schedule entry can carry in a role
RoleValues == {vet_names(v) : v \in Vets} \cup {None}

\* every schedule over the days of the horizon, and the empty one
CandidateSchedules ==
    {[i \in 1..n_days |->
        [date |-> i - 1,
         jour |-> DayName(weekday(i - 1)),
         premier |-> f[i][1],
         rappelable |-> f[i][2],
         deuxieme |-> f[i][3]]] :
        f \in [1..n_days -> RoleValues \X RoleValues \X RoleValues]}
    \cup {<<>>}

\* one call of diagnose_schedule per behaviour
Diagnose ==
    /\ ~diagnostic.called
    /\ \E s \in CandidateSchedules : diagnostic' = Diagnosed(s)
    /\ UNCHANGED <<schedulerVars, callVars, storeVars, status, schedule>>

NextDiagnose == Diagnose

SpecDiagnose == InitDiagnose /\ [][NextDiagnose]_vars

-----------------------------------------------------------------------------
(* The constructor called on any arguments, valid or not *)

\* horizons of 1..MaxConstructDays days are built from every start weekday
MaxConstructDays == 14

\* the pairs (start_date, end_date): malformed, reversed, and short
DatePairs ==
    {<<Malformed, Date(0)>>, <<Date(0), Malformed>>, <<Malformed, Malformed>>}
    \cup {<<Date(s), Date(s + k)>> : s \in 0..6, k \in -1..(MaxConstructDays - 1)}

\* the pairs around the limit of MaxSpan days
LongDatePairs == {<<Date(s), Date(s + k)>> : s \in 0..6, k \in {MaxSpan, MaxSpan + 1}}

SomeDatePairs ==
    {<<Date(0), Date(0)>>, <<Date(0), Date(6)>>, <<Malformed, Date(0)>>,
     <<Date(3), Date(2)>>, <<Date(0), Date(MaxSpan + 1)>>}

RestValues ==
    {RestMissing, RestOther, RestInt(-1), RestInt(0), RestInt(6), RestInt(7),
     RestList(<<>>), RestList(<<PyInt(1), PyInt(3)>>), RestList(<<PyInt(1), NotInt>>),
     RestList(<<PyInt(7)>>),
     RestList([j \in 1..MaxRestDays |-> PyInt(j - 1)]),
     RestList([j \in 1..(MaxRestDays + 1) |-> PyInt(j - 1)]),
     RestList([j \in 1..(MaxRestDays + 1) |-> PyInt(0)])}

CongesValues ==
    {CongesMissing, CongesOther, CongesList(<<>>), CongesList(<<Date(2)>>),
     CongesList(<<Date(2), Malformed>>)}

RawTrio == RawRoster(RosterTrio, 0)

\* no vet, two vets, three and five valid vets, and three vets of which
\* the second one is given in every way
RawRosters ==
    {<<>>, SubSeq(RawTrio, 1, 2), RawTrio, RawRoster(RosterCinq, 0)}
    \cup {[RawTrio EXCEPT ![2] = RawVet("Dr. Maxime", d, jr, cg)] :
            d \in BOOLEAN, jr \in RestValues, cg \in CongesValues}

ConstructArgs ==
    {[start_date |-> dp[1], end_date |-> dp[2], veterinaires |-> r, config |-> NoConfig] :
        dp \in DatePairs, r \in {<<>>, SubSeq(RawTrio, 1, 2), RawTrio}}
    \cup {[start_date |-> dp[1], end_date |-> dp[2], veterinaires |-> r,
           config |-> NoConfig] :
        dp \in LongDatePairs, r \in {<<>>, SubSeq(RawTrio, 1, 2)}}
    \cup {[start_date |-> dp[1], end_date |-> dp[2], veterinaires |-> r,
           config |-> NoConfig] :
        dp \in SomeDatePairs, r \in RawRosters}

\* the history handed to the constructor: empty, or one earlier period
ConstructHistories ==
    {EmptyHistory,
     HistoryOf(RosterTrio, OneHistory(RosterTrio, 1, "premier_semaine", MaxHist))}

InitConstruct ==
    \E a \in ConstructArgs, h \in ConstructHistories :
        /\ start_wd = NoScheduler.start_wd
        /\ n_days = NoScheduler.n_days
        /\ veterinaires = NoScheduler.veterinaires
        /\ contraintes = NoScheduler.contraintes
        /\ historical_stats = NoScheduler.historical_stats
        /\ weekdays = NoScheduler.weekdays
        /\ weeks = NoScheduler.weeks
        /\ weekends = NoScheduler.weekends
        /\ vets_speciaux = NoScheduler.vets_speciaux
        /\ status = "new"
        /\ schedule = NoSchedule
        /\ diagnostic = NoDiagnostic
        /\ args = a
        /\ raised = None
        /\ history = h
        /\ file = FileOf(h)
        /\ calls = <<>>
        /\ saving = NoSave
        /\ loaded = NotLoaded

\* one constructor call per behaviour
Construct ==
    /\ status = "new"
    /\ raised = None
    /\ Constructor

NextConstruct == Construct

SpecConstruct == InitConstruct /\ [][NextConstruct]_vars

-----------------------------------------------------------------------------
(* The history object under any sequence of add_schedule and clear *)

\* at most MaxCalls calls of add_schedule and clear are made
MaxCalls == 2

\* a Friday and a Saturday
HistoryInput == Input(4, 2, RosterTrio, DefaultContraintes, NoHistory(RosterTrio))

DayEntry(d, wd0, roles) ==
    [date |-> d, jour |-> DayName(WeekdayOf(wd0, d)),
     premier |-> roles[1], rappelable |-> roles[2], deuxieme |-> roles[3]]

\* the schedules handed to add_schedule: None, the Friday alone, and the
\* Friday with the Saturday, roles filled as solve() fills them or otherwise
HistorySchedules ==
    LET fridays == {<<"Dr. Timoty", "Dr. Maxime", None>>,
                    <<None, None, "Dr. Timoty">>}
        saturdays == {<<"Dr. Nicolas", None, "Dr. Timoty">>,
                      <<"Dr. Maxime", "Dr. Nicolas", None>>}
    IN  {NoSchedule}
        \cup {<<DayEntry(0, 4, f)>> : f \in fridays}
        \cup {<<DayEntry(0, 4, f), DayEntry(1, 4, s)>> : f \in fridays, s \in saturdays}

PeriodNames == {"janvier", "février", None}

InitHistory == BuiltFrom(HistoryInput)

AddSchedule ==
    /\ Len(calls) < MaxCalls
    /\ \E s \in HistorySchedules, p \in PeriodNames : add_schedule(s, p)
    /\ UNCHANGED <<schedulerVars, callVars, status, schedule, diagnostic, saving, loaded>>

Clear ==
    /\ Len(calls) < MaxCalls
    /\ clear
    /\ UNCHANGED <<schedulerVars, callVars, status, schedule, diagnostic, saving, loaded>>

\* a new VetScheduler is built on the history as it stands
NewScheduler == Constructor

NextHistory == AddSchedule \/ Clear \/ NewScheduler

SpecHistory == InitHistory /\ [][NextHistory]_vars

-----------------------------------------------------------------------------
(* generer_planning: load the history, build, solve, record *)

\* a Friday alone, and a Friday with its Saturday
PlanningInputs ==
    {Input(4, n, RosterTrio, DefaultContraintes, NoHistory(RosterTrio)) : n \in 1..2}

\* the history file found at start: none, one earlier period, or a file
\* that json.load rejects
PlanningFiles ==
    {NoFile,
     JsonFile(HistoryOf(RosterTrio, OneHistory(RosterTrio, 1, "premier_semaine", 1))),
     TruncatedFile}

InitPlanning ==
    \E inp \in PlanningInputs, f \in PlanningFiles :
        /\ start_wd = NoScheduler.start_wd
        /\ n_days = NoScheduler.n_days
        /\ veterinaires = NoScheduler.veterinaires
        /\ contraintes = NoScheduler.contraintes
        /\ historical_stats = NoScheduler.historical_stats
        /\ weekdays = NoScheduler.weekdays
        /\ weeks = NoScheduler.weeks
        /\ weekends = NoScheduler.weekends
        /\ vets_speciaux = NoScheduler.vets_speciaux
        /\ status = "new"
        /\ schedule = NoSchedule
        /\ diagnostic = NoDiagnostic
        /\ args = ArgsOf(inp)
        /\ raised = None
        /\ history = load(f)
        /\ file = f
        /\ calls = <<>>
        /\ saving = NoSave
        /\ loaded = NotLoaded

\* if schedule: history.add_schedule(schedule, period_name=period_name)
Record ==
    /\ status \in {"OPTIMAL", "FEASIBLE"}
    /\ schedule # NoSchedule
    /\ Len(calls) < MaxCalls
    /\ \E p \in {"janvier"} : add_schedule(schedule, p)
    /\ UNCHANGED <<schedulerVars, callVars, status, schedule, diagnostic, saving, loaded>>

\* history.add_schedule(None)
AddNone ==
    /\ Len(calls) < MaxCalls
    /\ add_schedule(NoSchedule, None)
    /\ UNCHANGED <<schedulerVars, callVars, status, schedule, diagnostic, saving, loaded>>

NextPlanning == Construct \/ Solve \/ Record \/ AddNone \/ Clear

SpecPlanning == InitPlanning /\ [][NextPlanning]_vars

-----------------------------------------------------------------------------
(* save() step by step, with a second VetSchedulerHistory on the same file *)

\* a Friday and a Saturday, the file absent or holding one earlier period
FileInputs ==
    {Input(4, 2, RosterTrio, DefaultContraintes, hist) :
        hist \in {NoHistory(RosterTrio),
                  OneHistory(RosterTrio, 1, "premier_semaine", 1)}}

InitFile == \E inp \in FileInputs : BuiltFrom(inp)

\* add_schedule up to open(self.filepath, 'w') in save(): the dict holds
\* the new period and the file has just been truncated
AddScheduleOpen ==
    /\ saving.state # "open"
    /\ Len(calls) < MaxCalls
    /\ \E s \in HistorySchedules \ {NoSchedule}, p \in PeriodNames :
        /\ history' = WithSchedule(history, s, p, start_wd)
        /\ calls' = Append(calls, [op |-> "add_schedule", schedule |-> s,
                                   period_name |-> p])
    /\ saving' = [state |-> "open", previous |-> load(file), content |-> history']
    /\ file' = TruncatedFile
    /\ UNCHANGED <<schedulerVars, callVars, status, schedule, diagnostic, loaded>>

\* json.dump(self.history, f) and the end of the with block
SaveDump ==
    /\ saving.state = "open"
    /\ file' = JsonFile(saving.content)
    /\ saving' = [saving EXCEPT !.state = "done"]
    /\ UNCHANGED <<schedulerVars, callVars, status, schedule, diagnostic,
                   history, calls, loaded>>

\* json.dump raises, or the process stops, before anything is written: the
\* exception is printed and the file stays as open() left it
SaveInterrupted ==
    /\ saving.state = "open"
    /\ saving' = [saving EXCEPT !.state = "interrupted"]
    /\ UNCHANGED <<schedulerVars, callVars, status, schedule, diagnostic,
                   history, file, calls, loaded>>

\* VetSchedulerHistory(filepath) in another process: self.history = self.load()
LoadOther ==
    /\ ~loaded.called
    /\ loaded' = [called |-> TRUE, history |-> load(file)]
    /\ UNCHANGED <<schedulerVars, callVars, status, schedule, diagnostic,
                   history, file, calls, saving>>

NextFile == AddScheduleOpen \/ SaveDump \/ SaveInterrupted \/ LoadOther

SpecFile == InitFile /\ [][NextFile]_vars

-----------------------------------------------------------------------------
(* Reading a returned schedule *)

Returned == status \in {"OPTIMAL", "FEASIBLE"}

\* the record of day d in the returned schedule
Entry(d) == schedule[d + 1]

\* the vets named on day d, whatever the role
OnDuty(d) == {Entry(d).premier, Entry(d).rappelable, Entry(d).deuxieme} \ {None}

IsWeekday(d) == weekday(d) < 5

\* the calendar week (Monday to Sunday) of day d, counted from the week of day 0
CalendarWeek(d) == (start_wd + d) \div 7

\* the Saturdays whose Sunday is inside the horizon too
FullSaturdays == {d \in Days : weekday(d) = 5 /\ d + 1 < n_days}

\* the vet holds premier or deuxieme on the weekend that starts on Saturday sam
HoldsWeekend(name, sam) ==
    name \in {Entry(sam).premier, Entry(sam).deuxieme,
              Entry(sam + 1).premier, Entry(sam + 1).deuxieme}

-----------------------------------------------------------------------------
(* Properties of the returned schedules *)

\* C1: in a returned schedule every weekday (Mon-Fri) has a premier and a
\* rappelable, who are two different vets, and no deuxieme.
Thm_C1_WeekdayCoverage ==
    Returned =>
        \A d \in Days :
            IsWeekday(d) =>
                /\ Entry(d).premier # None
                /\ Entry(d).rappelable # None
                /\ Entry(d).premier # Entry(d).rappelable
                /\ Entry(d).deuxieme = None

\* a returned schedule over two weekdays or more
Wit_C1_WeekdayCoverage ==
    /\ Returned
    /\ Cardinality({d \in Days : IsWeekday(d)}) >= 2
    /\ \E d \in Days : IsWeekday(d) /\ Entry(d).premier # None /\ Entry(d).rappelable # None

\* C2: in a returned schedule every full weekend has a premier and a
\* deuxieme on both days, the same premier and the same deuxieme on Saturday
\* and Sunday, premier and deuxieme being different vets, and no rappelable.
Thm_C2_WeekendDuo ==
    Returned =>
        \A sam \in FullSaturdays :
            /\ Entry(sam).premier # None
            /\ Entry(sam).deuxieme # None
            /\ Entry(sam + 1).premier = Entry(sam).premier
            /\ Entry(sam + 1).deuxieme = Entry(sam).deuxieme
            /\ Entry(sam).premier # Entry(sam).deuxieme
            /\ Entry(sam).rappelable = None
            /\ Entry(sam + 1).rappelable = None

\* a returned schedule with a full weekend between a Friday and a Monday
Wit_C2_WeekendDuo ==
    /\ Returned
    /\ \E sam \in FullSaturdays :
        /\ sam > 0
        /\ sam + 2 < n_days
        /\ Entry(sam).premier # None
        /\ Entry(sam + 1).deuxieme # None

\* C3: in a returned schedule no vet holds a role on one of their vacation
\* dates, nor premier or rappelable on a weekday that is one of their rest
\* days.
Thm_C3_RestAndVacation ==
    Returned =>
        \A v \in Vets : \A d \in Days :
            /\ d \in conges(v) => vet_names(v) \notin OnDuty(d)
            /\ (IsWeekday(d) /\ weekday(d) \in jours_repos(v)) =>
                    vet_names(v) \notin {Entry(d).premier, Entry(d).rappelable}

\* a returned schedule where a vet is on vacation on a weekday of the
\* horizon and another vet has a rest day on a weekday of the horizon
Wit_C3_RestAndVacation ==
    /\ Returned
    /\ \E v \in Vets : \E d \in Days : IsWeekday(d) /\ d \in conges(v)
    /\ \E v \in Vets : \E d \in Days : IsWeekday(d) /\ weekday(d) \in jours_repos(v)

\* C4: in a returned schedule the premier of a weekday d is neither premier
\* nor rappelable on day d+1.
Thm_C4_RestAfterPremier ==
    Returned =>
        \A d \in Days :
            (IsWeekday(d) /\ d + 1 < n_days /\ Entry(d).premier # None) =>
                Entry(d).premier \notin {Entry(d + 1).premier, Entry(d + 1).rappelable}

\* a returned schedule where the premier of a weekday is on duty again two
\* days later, the day in between being a weekday
Wit_C4_RestAfterPremier ==
    /\ Returned
    /\ \E d \in Days :
        /\ d + 2 < n_days
        /\ IsWeekday(d) /\ IsWeekday(d + 1)
        /\ Entry(d).premier \in OnDuty(d + 2)

\* C5: in a returned schedule no vet is premier on more than
\* max_premier_semaine days among the Mon-Fri days of one calendar week that
\* lie in the horizon, partial work-weeks included.
Thm_C5_PremierPerWeek ==
    Returned =>
        \A v \in Vets : \A d0 \in Days :
            Cardinality({d \in Days : /\ IsWeekday(d)
                                      /\ CalendarWeek(d) = CalendarWeek(d0)
                                      /\ Entry(d).premier = vet_names(v)})
                <= contraintes.max_premier_semaine

\* a returned schedule of a horizon that starts after Monday and ends before
\* Friday of a later week, where a vet is premier in both partial work-weeks
Wit_C5_PremierPerWeek ==
    /\ Returned
    /\ start_wd \in 1..4
    /\ weekday(n_days - 1) \in 0..3
    /\ \E d1, d2 \in Days :
        /\ IsWeekday(d1) /\ IsWeekday(d2)
        /\ CalendarWeek(d1) # CalendarWeek(d2)
        /\ Entry(d1).premier = Entry(d2).premier

\* C6: in a returned schedule no vet holds a weekend role (premier or
\* deuxieme) on two different full weekends whose Saturdays are less than
\* 14 days apart.
Thm_C6_WeekendSpacing ==
    Returned =>
        \A v \in Vets : \A s1, s2 \in FullSaturdays :
            (s1 < s2 /\ s2 - s1 < 14) =>
                ~(HoldsWeekend(vet_names(v), s1) /\ HoldsWeekend(vet_names(v), s2))

\* a returned schedule with two full weekends 7 days apart
Wit_C6_WeekendSpacing ==
    /\ Returned
    /\ \E s1, s2 \in FullSaturdays :
        /\ s2 - s1 = 7
        /\ Entry(s1).premier # None
        /\ Entry(s2).premier # None

\* the vets counted in the balancing: all but Dr. Olivier and Dr. Dorra
Balanced == {v \in Vets : vet_names(v) \notin {"Dr. Olivier", "Dr. Dorra"}}

\* count in the returned schedule + historical count, per balancing category
TotalPremier(v) ==
    Cardinality({d \in Days : Entry(d).premier = vet_names(v)})
        + historical_stats[v].premier_semaine + historical_stats[v].premier_weekend
TotalRappelable(v) ==
    Cardinality({d \in Days : IsWeekday(d) /\ Entry(d).rappelable = vet_names(v)})
        + historical_stats[v].rappelable_semaine
TotalDeuxieme(v) ==
    Cardinality({d \in Days : ~IsWeekday(d) /\ Entry(d).deuxieme = vet_names(v)})
        + historical_stats[v].deuxieme_weekend

Gap(S) == SetMax(S) - SetMin(S)

BalancedSchedule ==
    Cardinality(Balanced) >= 2 =>
        /\ Gap({TotalPremier(v) : v \in Balanced}) <= contraintes.ecart_equilibrage_premier
        /\ Gap({TotalRappelable(v) : v \in Balanced})
                <= contraintes.ecart_equilibrage_rappelable
        /\ Gap({TotalDeuxieme(v) : v \in Balanced}) <= contraintes.ecart_equilibrage_deuxieme

\* a Saturday or Sunday of the horizon whose other weekend day is outside it
PartialWeekendDays ==
    {d \in Days : \/ weekday(d) = 5 /\ d = n_days - 1
                  \/ weekday(d) = 6 /\ d = 0}

\* C7: in a returned schedule, for each balancing category, the gap between
\* the largest and the smallest (count in the schedule + historical count)
\* over the vets other than Dr. Olivier and Dr. Dorra is at most the
\* configured gap, whenever at least two such vets exist.
Cex_C7_Balance == Returned => BalancedSchedule

\* C7, away from partial weekend days: the gaps of a returned schedule are
\* within the configured ones when the horizon has no partial weekend day.
Aux_C7_BalanceFullWeekends == (Returned /\ PartialWeekendDays = {}) => BalancedSchedule

\* C8: in a returned schedule, on a day whose premier is of groupe A, the
\* rappelable (weekday) or deuxieme (weekend day) is of groupe B or is
\* Dr. Dorra.
Cex_C8_Pairing ==
    Returned =>
        \A d \in Days :
            Entry(d).premier \in groupe_A =>
                LET partner == IF IsWeekday(d) THEN Entry(d).rappelable
                               ELSE Entry(d).deuxieme
                IN  partner # None => partner \in groupe_B \cup {"Dr. Dorra"}

\* C8, away from partial weekend days
Aux_C8_PairingFullWeekends ==
    Returned =>
        \A d \in Days \ PartialWeekendDays :
            Entry(d).premier \in groupe_A =>
                LET partner == IF IsWeekday(d) THEN Entry(d).rappelable
                               ELSE Entry(d).deuxieme
                IN  partner \in groupe_B \cup {"Dr. Dorra"}

\* C9: in a returned schedule Dr. Olivier is never premier, never deuxieme
\* and holds nothing on a Saturday or Sunday, and Dr. Dorra holds nothing on
\* a Monday.
Thm_C9_OlivierDorra ==
    Returned =>
        \A d \in Days :
            /\ Entry(d).premier # "Dr. Olivier"
            /\ Entry(d).deuxieme # "Dr. Olivier"
            /\ ~IsWeekday(d) => "Dr. Olivier" \notin OnDuty(d)
            /\ weekday(d) = 0 => "Dr. Dorra" \notin OnDuty(d)

\* a returned schedule over a weekend and a Monday where Dr. Olivier is
\* rappelable one day and Dr. Dorra is on duty one day
Wit_C9_OlivierDorra ==
    /\ Returned
    /\ \E d \in Days : weekday(d) = 0
    /\ \E d \in Days : ~IsWeekday(d)
    /\ \E d \in Days : Entry(d).rappelable = "Dr. Olivier"
    /\ \E d \in Days : "Dr. Dorra" \in OnDuty(d)

\* C10: in a returned schedule, whatever the horizon, two rappelable days of
\* Dr. Olivier are never in the same calendar week nor in two consecutive
\* calendar weeks.
Cex_C10_OlivierTwoWeeks ==
    Returned =>
        \A d1, d2 \in Days :
            (d1 < d2 /\ Entry(d1).rappelable = "Dr. Olivier"
                     /\ Entry(d2).rappelable = "Dr. Olivier") =>
                CalendarWeek(d2) - CalendarWeek(d1) >= 2

\* C10, on horizons of two work-weeks or more
Aux_C10_TwoWorkWeeks ==
    (Returned /\ \E d1, d2 \in Days : /\ IsWeekday(d1) /\ IsWeekday(d2)
                                      /\ CalendarWeek(d1) # CalendarWeek(d2)) =>
        \A d1, d2 \in Days :
            (d1 < d2 /\ Entry(d1).rappelable = "Dr. Olivier"
                     /\ Entry(d2).rappelable = "Dr. Olivier") =>
                CalendarWeek(d2) - CalendarWeek(d1) >= 2

\* the number of weekdays of the calendar week of day d0 on which the vet is
\* rappelable in the returned schedule
RappelableInWeek(name, d0) ==
    Cardinality({d \in Days : /\ IsWeekday(d)
                              /\ CalendarWeek(d) = CalendarWeek(d0)
                              /\ Entry(d).rappelable = name})

\* C11: in a returned schedule every vet other than Dr. Olivier and
\* Dr. Dorra is rappelable on at most max_rappelable_semaine days of each
\* work-week, whatever value the configuration gives to that key.
Cex_C11_RappelableCap ==
    Returned =>
        \A v \in Vets : \A d0 \in Days :
            vet_names(v) \notin {"Dr. Olivier", "Dr. Dorra"} =>
                RappelableInWeek(vet_names(v), d0) <= contraintes.max_rappelable_semaine

\* what add_constraints enforces instead: the literal 2 of its block 4
Aux_C11_RappelableCapTwo ==
    Returned =>
        \A v \in Vets : \A d0 \in Days :
            vet_names(v) \notin {"Dr. Olivier", "Dr. Dorra"} =>
                RappelableInWeek(vet_names(v), d0) <= 2

\* C12: in a returned schedule, whoever is premier or deuxieme on a full
\* weekend whose Monday lies in the horizon is neither premier nor
\* rappelable on that Monday.
Thm_C12_MondayAfterWeekend ==
    Returned =>
        \A v \in Vets : \A sam \in FullSaturdays :
            (sam + 2 < n_days /\ HoldsWeekend(vet_names(v), sam)) =>
                vet_names(v) \notin {Entry(sam + 2).premier, Entry(sam + 2).rappelable}

\* a returned schedule where Dr. Laura, whose rest day is Monday, is deuxieme
\* on a weekend followed by a Monday of the horizon, and another where the
\* deuxieme of such a weekend is on duty again on the Tuesday
Wit_C12_MondayAfterWeekend ==
    /\ Returned
    /\ \E sam \in FullSaturdays :
        /\ sam + 3 < n_days
        /\ Entry(sam + 2).premier # None
        /\ \/ Entry(sam).deuxieme = "Dr. Laura"
           \/ Entry(sam).deuxieme \in OnDuty(sam + 3)

\* the full weekends (by their Saturday) followed by a Monday of the horizon
\* that is a rest day of vet v and not one of v's vacation dates
WeekendsBeforeRestMonday(v) ==
    {sam \in FullSaturdays : /\ sam + 2 < n_days
                             /\ 0 \in jours_repos(v)
                             /\ (sam + 2) \notin conges(v)}

\* C13: when Dr. Laura's rest day is Monday, the model built by
\* add_constraints has a solution in which she is premier on a full weekend
\* followed by such a Monday of the horizon.
Cex_C13_LauraWeekendPremier ==
    status = "built" =>
        \A v \in Vets : \A sam \in WeekendsBeforeRestMonday(v) :
            vet_names(v) = "Dr. Laura" => \E a \in Solutions : Prem(a, v, sam)

\* what the model yields instead: Dr. Laura is never premier on such a
\* weekend (block 7 zeroes her premier on the Sunday, the eve of her rest day)
Aux_C13_LauraNeverWeekendPremier ==
    Returned =>
        \A v \in Vets : \A sam \in WeekendsBeforeRestMonday(v) :
            vet_names(v) = "Dr. Laura" => Entry(sam).premier # "Dr. Laura"

\* while she can be deuxieme on such a weekend
Aux_C13_LauraWeekendDeuxieme ==
    /\ Returned
    /\ \E v \in Vets : \E sam \in WeekendsBeforeRestMonday(v) :
        vet_names(v) = "Dr. Laura" /\ Entry(sam).deuxieme = "Dr. Laura"

\* C14: in a returned schedule Dr. Laura is not premier on a full weekend
\* whose next day is a Monday of the horizon on which she is on vacation.
Thm_C14_LauraVacationMonday ==
    Returned =>
        \A v \in Vets : \A sam \in FullSaturdays :
            (vet_names(v) = "Dr. Laura" /\ sam + 2 < n_days /\ (sam + 2) \in conges(v)) =>
                "Dr. Laura" \notin {Entry(sam).premier, Entry(sam + 1).premier}

\* a returned schedule where Dr. Laura, on vacation on the Monday and
\* resting on Mondays, is deuxieme on the weekend before it
Wit_C14_LauraVacationMonday ==
    /\ Returned
    /\ \E v \in Vets : \E sam \in FullSaturdays :
        /\ vet_names(v) = "Dr. Laura"
        /\ sam + 2 < n_days
        /\ (sam + 2) \in conges(v)
        /\ 0 \in jours_repos(v)
        /\ Entry(sam).deuxieme = "Dr. Laura"
        /\ Entry(sam).premier # None

\* day d + 1 is in the horizon and is a weekday rest day or a vacation date of vet v
OffNextDay(v, d) ==
    /\ d + 1 < n_days
    /\ \/ IsWeekday(d + 1) /\ weekday(d + 1) \in jours_repos(v)
       \/ (d + 1) \in conges(v)

\* C15: in a returned schedule a vet other than Dr. Julien and Dr. Olivier
\* is neither premier nor rappelable on the eve of one of their weekday rest
\* days or vacation dates.
Thm_C15_EveOfRest ==
    Returned =>
        \A v \in Vets : \A d \in Days :
            (vet_names(v) \notin {"Dr. Julien", "Dr. Olivier"} /\ OffNextDay(v, d)) =>
                vet_names(v) \notin {Entry(d).premier, Entry(d).rappelable}

\* a returned schedule where a vet has a rest day on a weekday after the
\* first day of the horizon and is on duty two days before it
Wit_C15_EveOfRest ==
    /\ Returned
    /\ \E v \in Vets : \E d \in Days :
        /\ d > 0
        /\ vet_names(v) \notin {"Dr. Julien", "Dr. Olivier"}
        /\ IsWeekday(d + 1) /\ weekday(d + 1) \in jours_repos(v) /\ d + 1 < n_days
        /\ IsWeekday(d)
        /\ vet_names(v) \in OnDuty(d - 1)

\* C16: in a returned schedule Dr. Julien is neither premier nor rappelable
\* on the eve of one of his vacation dates (the eve of a mere rest day is
\* open to him).
Cex_C16_JulienEveOfVacation ==
    Returned =>
        \A v \in Vets : \A d \in Days :
            (vet_names(v) = "Dr. Julien" /\ d + 1 < n_days /\ (d + 1) \in conges(v)) =>
                "Dr. Julien" \notin {Entry(d).premier, Entry(d).rappelable}

\* what the model enforces instead: he is not premier on that eve
Aux_C16_JulienEvePremier ==
    Returned =>
        \A v \in Vets : \A d \in Days :
            (vet_names(v) = "Dr. Julien" /\ d + 1 < n_days /\ (d + 1) \in conges(v)) =>
                Entry(d).premier # "Dr. Julien"

\* and he can be premier, or rappelable, on the eve of a rest day
Aux_C16_JulienEveOfRestPremier ==
    /\ Returned
    /\ \E v \in Vets : \E d \in Days :
        /\ vet_names(v) = "Dr. Julien"
        /\ d + 1 < n_days /\ IsWeekday(d + 1) /\ weekday(d + 1) \in jours_repos(v)
        /\ Entry(d).premier = "Dr. Julien"

Aux_C16_JulienEveOfRestRappelable ==
    /\ Returned
    /\ \E v \in Vets : \E d \in Days :
        /\ vet_names(v) = "Dr. Julien"
        /\ d + 1 < n_days /\ IsWeekday(d + 1) /\ weekday(d + 1) \in jours_repos(v)
        /\ Entry(d).rappelable = "Dr. Julien"

\* C17: in a returned schedule nobody holds a role on a partial weekend day
\* (a Saturday that ends the horizon, a Sunday that starts it).
Cex_C17_PartialWeekend ==
    Returned => \A d \in PartialWeekendDays : OnDuty(d) = {}

\* a returned schedule can even show the three roles on such a day
Aux_C17_PartialWeekendAllRoles ==
    /\ Returned
    /\ \E d \in PartialWeekendDays :
        /\ Entry(d).premier # None
        /\ Entry(d).rappelable # None
        /\ Entry(d).deuxieme # None

\* C18: diagnose_schedule, run by solve() on the schedule it returns, reports
\* no violation (status "success"), whatever the horizon.
Cex_C18_DiagnoseSuccess ==
    Returned =>
        /\ diagnostic.called
        /\ diagnostic.argument = schedule
        /\ diagnostic.result.status = "success"

\* it does so on the horizons without a partial weekend day
Aux_C18_DiagnoseSuccessFullWeekends ==
    (Returned /\ PartialWeekendDays = {}) =>
        /\ diagnostic.called
        /\ diagnostic.argument = schedule
        /\ diagnostic.result.status = "success"
        /\ diagnostic.result.violations = <<>>

\* a returned schedule with a full weekend that is diagnosed without violation
Aux_C18_DiagnosedWeekend ==
    /\ Returned
    /\ FullSaturdays # {}
    /\ diagnostic.called
    /\ diagnostic.result.status = "success"

\* the values of the decision variables that a schedule stands for
ToAssignment(s) ==
    [premier |-> [i \in 1..Len(s) |-> {v \in Vets : vet_names(v) = s[i].premier}],
     rappelable |-> [i \in 1..Len(s) |-> {v \in Vets : vet_names(v) = s[i].rappelable}],
     deuxieme |-> [i \in 1..Len(s) |-> {v \in Vets : vet_names(v) = s[i].deuxieme}]]

\* the rules 1 to 10, 14 and 15 of add_constraints
RulesHold(a) ==
    /\ Constraint1(a, 0) /\ Constraint2(a, 0) /\ Constraint3(a, 0)
    /\ Constraint4(a, 0) /\ Constraint5(a, 0) /\ Constraint5bis(a, 0)
    /\ Constraint6(a, 0) /\ Constraint7(a, 0) /\ Constraint9(a, 0)
    /\ Constraint10(a, 0) /\ Constraint14(a, 0) /\ Constraint15(a, 0)

\* C19: diagnose_schedule reports a violation (status "error") for every
\* schedule that breaks one of the rules 1 to 10, 14 or 15.
Cex_C19_DiagnoseDetects ==
    (diagnostic.called /\ diagnostic.argument # <<>>
        /\ ~RulesHold(ToAssignment(diagnostic.argument))) =>
            diagnostic.result.status = "error"

\* a schedule with the same premier on Monday and on Tuesday, diagnosed
\* without any violation
Aux_C19_SamePremierTwiceUndetected ==
    /\ diagnostic.called
    /\ Len(diagnostic.argument) = 2
    /\ weekday(0) = 0
    /\ diagnostic.argument[1].premier = diagnostic.argument[2].premier
    /\ diagnostic.result.status = "success"

\* what diagnose_schedule does report: a day without its premier or its
\* second role, with the role of the other kind of day, or with one vet twice
Aux_C19_DiagnoseCoverage ==
    (diagnostic.called /\ diagnostic.argument # <<>>) =>
        (diagnostic.result.status = "error" <=>
            \E i \in 1..Len(diagnostic.argument) :
                LET e == diagnostic.argument[i] IN
                    \/ e.premier = None
                    \/ e.premier \in {e.rappelable, e.deuxieme}
                    \/ IF weekday(e.date) >= 5
                       THEN e.deuxieme = None \/ e.rappelable # None
                       ELSE e.rappelable = None \/ e.deuxieme # None)

\* count in schedule s + historical count, per balancing category
PremierTotal(s, v) ==
    Cardinality({i \in 1..Len(s) : s[i].premier = vet_names(v)})
        + historical_stats[v].premier_semaine + historical_stats[v].premier_weekend
RappelableTotal(s, v) ==
    Cardinality({i \in 1..Len(s) : weekday(s[i].date) < 5 /\ s[i].rappelable = vet_names(v)})
        + historical_stats[v].rappelable_semaine
DeuxiemeTotal(s, v) ==
    Cardinality({i \in 1..Len(s) : weekday(s[i].date) >= 5 /\ s[i].deuxieme = vet_names(v)})
        + historical_stats[v].deuxieme_weekend

\* some balancing category of schedule s has a gap above its configured limit
GapExceeded(s) ==
    /\ Cardinality(Balanced) >= 2
    /\ \/ Gap({PremierTotal(s, v) : v \in Balanced}) > contraintes.ecart_equilibrage_premier
       \/ Gap({RappelableTotal(s, v) : v \in Balanced})
                > contraintes.ecart_equilibrage_rappelable
       \/ Gap({DeuxiemeTotal(s, v) : v \in Balanced}) > contraintes.ecart_equilibrage_deuxieme

\* C20: diagnose_schedule emits a warning exactly when the gap of some
\* balancing category (count in the schedule + history, over the balanced
\* vets) exceeds its configured limit.
Cex_C20_WarningsExact ==
    (diagnostic.called /\ diagnostic.argument # <<>>) =>
        (diagnostic.result.warnings # <<>> <=> GapExceeded(diagnostic.argument))

\* a gap above the limit without any warning, on a schedule without violation
Aux_C20_GapWithoutWarning ==
    /\ diagnostic.called /\ diagnostic.argument # <<>>
    /\ diagnostic.result.status = "success"
    /\ GapExceeded(diagnostic.argument)
    /\ diagnostic.result.warnings = <<>>

\* a warning although every gap is within its limit
Aux_C20_WarningWithoutGap ==
    /\ diagnostic.called /\ diagnostic.argument # <<>>
    /\ ~GapExceeded(diagnostic.argument)
    /\ diagnostic.result.warnings # <<>>

\* C21: once solve() has run, it has returned a schedule exactly when the
\* solver status is OPTIMAL or FEASIBLE, and that schedule has one entry per
\* day of the horizon; with any other status it has returned None.
Thm_C21_ScheduleIffSolved ==
    status # "built" =>
        /\ status \in {"OPTIMAL", "FEASIBLE", "INFEASIBLE", "UNKNOWN"}
        /\ schedule # NoSchedule <=> status \in {"OPTIMAL", "FEASIBLE"}
        /\ schedule # NoSchedule =>
                /\ Len(schedule) = n_days
                /\ \A d \in Days : Entry(d).date = d

\* solve() has returned None because the model has no solution
Wit_C21_ScheduleIffSolved ==
    /\ status = "INFEASIBLE"
    /\ schedule = NoSchedule
    /\ n_days >= 2

\* the fields of a built scheduler are those the constructor computes from
\* its arguments and the history
Aux_BuiltAsConstructed ==
    status = "built" /\ calls = <<>> =>
        /\ validate_inputs(args.start_date, args.end_date, args.veterinaires) = Valid
        /\ start_wd = args.start_date.day % 7
        /\ n_days = args.end_date.day - args.start_date.day + 1
        /\ veterinaires = [i \in 1..Len(args.veterinaires) |->
                                Normalised(args.veterinaires[i], args.start_date)]
        /\ historical_stats =
                get_cumulative_stats(history,
                    [i \in 1..Len(args.veterinaires) |-> args.veterinaires[i].name])

-----------------------------------------------------------------------------
(* Reading a constructor call *)

\* the constructor has returned or raised
Constructed == status = "built" \/ raised # None

\* the fields of the scheduler are still unset
Unbuilt ==
    /\ status = "new"
    /\ <<start_wd, n_days, veterinaires, contraintes, historical_stats,
         weekdays, weeks, weekends, vets_speciaux>>
       = <<NoScheduler.start_wd, NoScheduler.n_days, NoScheduler.veterinaires,
           NoScheduler.contraintes, NoScheduler.historical_stats, NoScheduler.weekdays,
           NoScheduler.weeks, NoScheduler.weekends, NoScheduler.vets_speciaux>>

\* the records of the roster that are dicts
Dicts(a) == {i \in 1..Len(a.veterinaires) : a.veterinaires[i].dict}

BadDates(a) ==
    \/ ~a.start_date.ok
    \/ ~a.end_date.ok
    \/ a.end_date.day < a.start_date.day
    \/ a.end_date.day - a.start_date.day > 365

SmallRoster(a) == Len(a.veterinaires) < 3

\* a rest day given as an integer outside 0..6, alone or in a list
RestDayOutOfRange(a) ==
    \E i \in Dicts(a) :
        LET jr == a.veterinaires[i].jour_repos IN
        /\ jr.kind \in {"int", "list"}
        /\ \E j \in 1..Len(jr.value) : jr.value[j].int /\ jr.value[j].n \notin 0..6

TooManyRestDays(a) ==
    \E i \in Dicts(a) :
        /\ a.veterinaires[i].jour_repos.kind = "list"
        /\ Len(a.veterinaires[i].jour_repos.value) > 5

BadVacations(a) ==
    \E i \in Dicts(a) :
        LET cg == a.veterinaires[i].conges IN
        \/ cg.kind = "other"
        \/ cg.kind = "list" /\ \E j \in 1..Len(cg.value) : ~cg.value[j].ok

\* the failures the statement lists
ListedFailure(a) ==
    \/ BadDates(a)
    \/ SmallRoster(a)
    \/ RestDayOutOfRange(a)
    \/ TooManyRestDays(a)
    \/ BadVacations(a)

\* a record of the roster that is not a dict, or whose rest days are
\* missing, of another type than int or list, or a list holding a non-integer
MalformedRecord(a) ==
    \E i \in 1..Len(a.veterinaires) :
        LET info == a.veterinaires[i] IN
        \/ ~info.dict
        \/ info.jour_repos.kind \in {"missing", "other"}
        \/ /\ info.jour_repos.kind = "list"
           /\ \E j \in 1..Len(info.jour_repos.value) : ~info.jour_repos.value[j].int

-----------------------------------------------------------------------------
(* The calendar of a built scheduler *)

\* the work-weeks, resp. the weekend groups, that hold day d
WeeksOf(d) == {w \in 1..Len(weeks) : d \in Range(weeks[w])}
WeekendsOf(d) == {g \in 1..Len(weekends) : d \in Range(weekends[g])}

\* s lists consecutive day indices of the horizon
ContiguousRun(s) ==
    /\ s # <<>>
    /\ Range(s) \subseteq Days
    /\ \A j \in 1..(Len(s) - 1) : s[j + 1] = s[j] + 1

\* C23: in a scheduler built for a valid horizon, every weekday index lies
\* in exactly one work-week; each work-week is a contiguous run of days of
\* one Monday-Friday week that ends on a Friday or on the last day of the
\* horizon; every Saturday or Sunday index lies in exactly one weekend
\* group; a group is (Saturday, next day) exactly when that Sunday is inside
\* the horizon too, and a single day otherwise.
Thm_C23_PartitionExact ==
    status = "built" =>
        /\ \A d \in Days : weekday(d) < 5 => Cardinality(WeeksOf(d)) = 1
        /\ \A d \in Days : weekday(d) >= 5 => WeeksOf(d) = {}
        /\ \A w \in 1..Len(weeks) :
            /\ ContiguousRun(weeks[w])
            /\ weekday(weeks[w][1]) + Len(weeks[w]) - 1 <= 4
            /\ weekday(Last(weeks[w])) = 4 \/ Last(weeks[w]) = n_days - 1
        /\ \A d \in Days : weekday(d) >= 5 => Cardinality(WeekendsOf(d)) = 1
        /\ \A d \in Days : weekday(d) < 5 => WeekendsOf(d) = {}
        /\ \A g \in 1..Len(weekends) :
            LET we == weekends[g] IN
            /\ ContiguousRun(we)
            /\ Len(we) = 2 <=> (weekday(we[1]) = 5 /\ we[1] + 1 \in Days)
            /\ Len(we) = 1 <=> (\/ weekday(we[1]) = 6 /\ we[1] = 0
                                \/ weekday(we[1]) = 5 /\ we[1] = n_days - 1)

\* a horizon from a Sunday to the Monday of the week after: a lone Sunday,
\* a full work-week, a full weekend and a work-week cut by the horizon end
Wit_C23_PartitionExact ==
    /\ status = "built"
    /\ start_wd = 6
    /\ weekends = <<<<0>>, <<6, 7>>>>
    /\ weeks = <<<<1, 2, 3, 4, 5>>, <<8>>>>

-----------------------------------------------------------------------------
(* The history against the calls made *)

\* the name a call of add_schedule files its schedule under
FiledUnder(c) ==
    IF c.period_name # None THEN c.period_name
    ELSE ToString(c.schedule[1].date) \o "_to_" \o ToString(Last(c.schedule).date)

\* the schedule stored under each period name after the calls cs: the last
\* one added under that name since the last clear
RECURSIVE StoredAfter(_)
StoredAfter(cs) ==
    IF cs = <<>> THEN [q \in {} |-> NoSchedule]
    ELSE LET c == Last(cs)
             before == StoredAfter(SubSeq(cs, 1, Len(cs) - 1))
         IN  IF c.op = "clear" THEN [q \in {} |-> NoSchedule]
             ELSE IF c.schedule = NoSchedule THEN before
             ELSE [q \in DOMAIN before \cup {FiledUnder(c)} |->
                        IF q = FiledUnder(c) THEN c.schedule ELSE before[q]]

\* the days of schedule s that count for counter key of vet
TallyDays(s, vet, key) ==
    {i \in 1..Len(s) :
        LET weekend == s[i].jour \in {"Saturday", "Sunday"} IN
        CASE key = "premier_semaine" -> s[i].premier = vet /\ ~weekend
          [] key = "premier_weekend" -> s[i].premier = vet /\ weekend
          [] key = "rappelable_semaine" -> s[i].rappelable = vet
          [] key = "deuxieme_weekend" -> s[i].deuxieme = vet}

RECURSIVE SumTally(_, _, _, _)
SumTally(stored, names, vet, key) ==
    IF names = {} THEN 0
    ELSE LET q == CHOOSE x \in names : TRUE IN
         Cardinality(TallyDays(stored[q], vet, key))
            + SumTally(stored, names \ {q}, vet, key)

\* the vets asked for: the roster, and a vet that no schedule names
AskedVets == <<"Dr. Timoty", "Dr. Maxime", "Dr. Nicolas", "Dr. Sarah">>

ExpectedStats(cs, names) ==
    LET stored == StoredAfter(cs) IN
    [v \in 1..Len(names) |->
        [key \in Counters |-> SumTally(stored, DOMAIN stored, names[v], key)]]

\* C24: after any sequence of add_schedule and clear, get_cumulative_stats
\* gives, for every vet asked for and every counter, the sum over the
\* periods stored (per name, the last schedule added since the last clear)
\* of the days of that schedule on which the vet holds the role; a vet of no
\* stored period gets zeros; a scheduler built then starts from these sums.
Thm_C24_CumulativeStats ==
    /\ get_cumulative_stats(history, AskedVets) = ExpectedStats(calls, AskedVets)
    /\ get_cumulative_stats(history, AskedVets)[4] = ZeroStats
    /\ historical_stats # ExpectedStats(calls, <<"Dr. Timoty", "Dr. Maxime", "Dr. Nicolas">>)
        => \E k \in 0..(Len(calls) - 1) :
                historical_stats = ExpectedStats(SubSeq(calls, 1, k),
                                        <<"Dr. Timoty", "Dr. Maxime", "Dr. Nicolas">>)

\* two schedules were added under the same name, and a scheduler built
\* afterwards counts the second one only
Wit_C24_CumulativeStats ==
    /\ Len(calls) = 2
    /\ calls[1].op = "add_schedule" /\ calls[2].op = "add_schedule"
    /\ calls[1].period_name = "janvier" /\ calls[2].period_name = "janvier"
    /\ Len(calls[1].schedule) = 2 /\ Len(calls[2].schedule) = 2
    /\ calls[1].schedule[2].premier = "Dr. Nicolas"
    /\ calls[2].schedule[2].premier = "Dr. Maxime"
    /\ historical_stats[2].premier_weekend = 1
    /\ historical_stats[3].premier_weekend = 0
    /\ historical_stats[3].rappelable_semaine >= 1

-----------------------------------------------------------------------------
(* What a step does to the history *)

\* the periods of h other than p are those of g, unchanged
SameButFor(h, g, p) ==
    /\ DOMAIN h \ {p} = DOMAIN g \ {p}
    /\ \A q \in DOMAIN h \ {p} : h[q] = g[q]

-----------------------------------------------------------------------------
(* What a reader of the history file can see *)

\* C26: a load() that runs while a save() is under way, or after a save()
\* that did not complete, gets the complete content the file held before
\* that save() or the complete content being saved, never the empty
\* history of a truncated file.
Cex_C26_AtomicRewrite ==
    [][loaded' # loaded /\ saving.state \in {"open", "interrupted"}
            => loaded'.history \in {saving.previous, saving.content}]_vars

\* a load() that runs when no save() is under way and none was cut short
\* gets the content last saved
Aux_C26_QuiescentLoad ==
    [][loaded' # loaded /\ saving.state \in {"idle", "done"}
            => loaded'.history = history]_vars

\* a reader got an empty history while the file held a period before the
\* save() under way and the dict being saved holds two
Aux_C26_EmptyLoad ==
    /\ loaded.called
    /\ loaded.history = EmptyHistory
    /\ saving.state = "open"
    /\ DOMAIN saving.previous = {"2025"}
    /\ Cardinality(DOMAIN saving.content) = 2

-----------------------------------------------------------------------------
(* One week with three vets *)

\* three vets without weekday rest day nor vacation, default limits, no
\* history, from a Monday for one work-week with or without its weekend
WeekOfThree ==
    /\ start_wd = 0
    /\ n_days \in {5, 7}
    /\ n_vets = 3
    /\ \A v \in Vets : jours_repos(v) \cap 0..4 = {} /\ conges(v) = {}
    /\ contraintes = DefaultContraintes
    /\ historical_stats = NoHistory(veterinaires)

\* C27 as stated: for Monday 2026-01-05 to Sunday 2026-01-11 with three
\* vets free of weekday rest days and vacations, no history and the default
\* limits, the model is feasible.
Cex_C27_WeekOfThreeFeasible ==
    WeekOfThree /\ n_days = 7 /\ status # "built" => status # "INFEASIBLE"

\* C27 amended: for that horizon, and for its five weekdays alone, the
\* model has no solution (three vets with at most one premier each per
\* work-week cannot cover five weekdays): solve() returns None.
Thm_C27_WeekOfThreeInfeasible ==
    WeekOfThree /\ status # "built" =>
        /\ status \in {"INFEASIBLE", "UNKNOWN"}
        /\ schedule = NoSchedule
        /\ ~diagnostic.called

\* solve() has run on the Monday-Sunday week and found the model infeasible
Wit_C27_WeekOfThreeInfeasible ==
    /\ WeekOfThree
    /\ n_days = 7
    /\ Len(weeks) = 1 /\ Len(weeks[1]) = 5 /\ Len(weekends) = 1
    /\ status = "INFEASIBLE"
    /\ schedule = NoSchedule

-----------------------------------------------------------------------------
(* A horizon of one weekday *)

\* one weekday, default limits, no history
OneWeekday ==
    /\ n_days = 1
    /\ weekday(0) < 5
    /\ contraintes = DefaultContraintes
    /\ historical_stats = NoHistory(veterinaires)

\* the vets neither on a rest day nor on vacation that day
Eligible == {v \in Vets : weekday(0) \notin jours_repos(v) /\ 0 \notin conges(v)}

NotOnMonday(v) == weekday(0) = 0 /\ vet_names(v) \in {"Dr. Dorra", "Dr. Isaure"}

\* p as premier with r as rappelable breaks no rule of the day
PairAllowed(p, r) ==
    /\ p # r
    /\ vet_names(p) # "Dr. Olivier"
    /\ ~NotOnMonday(p) /\ ~NotOnMonday(r)
    /\ vet_names(p) \in groupe_A => vet_names(r) \in groupe_B

\* C28 as stated: on a horizon of one weekday solve() returns a schedule
\* exactly when at least 3 vets are eligible that day; with 2 eligible vets
\* it returns None.
Cex_C28_ThreeEligible ==
    OneWeekday =>
        /\ Returned => Cardinality(Eligible) >= 3
        /\ status = "INFEASIBLE" => Cardinality(Eligible) < 3

\* C28 amended: on a horizon of one weekday without history, the model is
\* feasible exactly when two distinct eligible vets can be paired (premier
\* other than Dr. Olivier, nobody of Dr. Dorra and Dr. Isaure on a Monday, a
\* premier of groupe A with a rappelable of groupe B); a returned schedule
\* is one such pair and no deuxieme; two eligible vets can be enough.
Thm_C28_OneWeekday ==
    OneWeekday /\ status # "built" =>
        LET feasible == \E p \in Eligible, r \in Eligible : PairAllowed(p, r) IN
        /\ status = "INFEASIBLE" => ~feasible
        /\ ~feasible => status \in {"INFEASIBLE", "UNKNOWN"} /\ schedule = NoSchedule
        /\ Returned =>
            /\ Len(schedule) = 1
            /\ Entry(0).deuxieme = None
            /\ \E p \in Eligible, r \in Eligible :
                /\ PairAllowed(p, r)
                /\ Entry(0).premier = vet_names(p)
                /\ Entry(0).rappelable = vet_names(r)

\* a Wednesday on which only two vets of three are eligible, and the
\* schedule returned names the two
Wit_C28_OneWeekday ==
    /\ OneWeekday
    /\ weekday(0) = 2
    /\ n_vets = 3
    /\ Cardinality(Eligible) = 2
    /\ Returned
    /\ {Entry(0).premier, Entry(0).rappelable} = {vet_names(v) : v \in Eligible}

\* three eligible vets, all of groupe A, and no schedule
Aux_C28_ThreeEligibleInfeasible ==
    /\ OneWeekday
    /\ Cardinality(Eligible) = 3
    /\ status = "INFEASIBLE"

-----------------------------------------------------------------------------
(* The same history for every vet *)

\* the trio under the default limits, Monday-Tuesday or a Wednesday alone
ShortTrio ==
    /\ veterinaires = RosterTrio
    /\ contraintes = DefaultContraintes
    /\ <<start_wd, n_days>> \in {<<0, 2>>, <<2, 1>>}

\* every vet carries the same counters, not all zero
UniformHistory ==
    /\ \A u, v \in Vets : historical_stats[u] = historical_stats[v]
    /\ historical_stats[1] # ZeroStats

\* C29: the history weighs on feasibility through the balance gap only: when
\* every balanced vet carries the same count, the model accepts what it
\* accepts without history; so a horizon feasible without history (the
\* Monday-Tuesday and the lone Wednesday of the trio are) stays feasible
\* when all vets carry the same deuxieme_weekend count, or the same count
\* above ten times the number of days.
Cex_C29_UniformHistory ==
    ShortTrio /\ UniformHistory => status # "INFEASIBLE"

\* without history the two horizons are feasible
Aux_C29_FeasibleWithoutHistory ==
    ShortTrio /\ historical_stats = NoHistory(veterinaires) => status # "INFEASIBLE"

\* Monday-Tuesday is infeasible once every vet carries one deuxieme_weekend
Aux_C29_InfeasibleDeuxieme ==
    /\ ShortTrio
    /\ n_days = 2
    /\ historical_stats = SameHistory(RosterTrio, "deuxieme_weekend", 1)
    /\ status = "INFEASIBLE"

\* the lone Wednesday is infeasible once every vet carries 11 weekday premiers
Aux_C29_InfeasibleLargeCount ==
    /\ ShortTrio
    /\ n_days = 1
    /\ historical_stats = SameHistory(RosterTrio, "premier_semaine", 11)
    /\ status = "INFEASIBLE"

\* the same count of premier or rappelable within the domain of the totals
\* leaves Monday-Tuesday feasible
Aux_C29_FeasibleSmallCount ==
    (/\ ShortTrio
     /\ n_days = 2
     /\ \E k \in Counters \ {"deuxieme_weekend"}, x \in 1..MaxHist :
            historical_stats = SameHistory(RosterTrio, k, x))
        => status # "INFEASIBLE"

-----------------------------------------------------------------------------
(* The exceptions made by vet name *)

\* C30: in every returned schedule Dr. Isaure holds no role on a Monday,
\* whatever config.vets_speciaux says about her (by default nothing); the
\* other exceptions go by the vet's name too: Dr. Dorra holds no role on a
\* Monday and Dr. Olivier is never premier nor deuxieme, whatever the
\* content of vets_speciaux.
Thm_C30_IsaureNoMonday ==
    Returned =>
        \A d \in Days :
            /\ weekday(d) = 0 => "Dr. Isaure" \notin OnDuty(d)
            /\ weekday(d) = 0 => "Dr. Dorra" \notin OnDuty(d)
            /\ Entry(d).premier # "Dr. Olivier"
            /\ Entry(d).deuxieme # "Dr. Olivier"

\* a schedule from a Monday on, built with an empty vets_speciaux, in which
\* Dr. Isaure is on the roster and works on the Tuesday
Wit_C30_IsaureNoMonday ==
    /\ Returned
    /\ vets_speciaux = [v \in {} |-> <<>>]
    /\ "Dr. Isaure" \notin DOMAIN DefaultVetsSpeciaux
    /\ \E v \in Vets : vet_names(v) = "Dr. Isaure"
    /\ weekday(0) = 0
    /\ "Dr. Isaure" \in OnDuty(1)

\* a tag of vets_speciaux for a vet the code does not name has no effect:
\* Dr. Maxime, tagged jamais_premier, is premier
Aux_C30_TagIgnored ==
    /\ Returned
    /\ "Dr. Maxime" \in DOMAIN vets_speciaux
    /\ vets_speciaux["Dr. Maxime"].jamais_premier
    /\ Entry(0).premier = "Dr. Maxime"

====
